---- MODULE Spec2Model ----
(***************************************************************************)
(* Market-data aggregation layer of btc-fng-tracker: the server-side       *)
(* provider chains (spot price, price history with its spot-fallback       *)
(* synthesizer, dominance), the sentiment routes, and the client-side      *)
(* series normalizer.                                                      *)
(*                                                                         *)
(* Conventions.                                                            *)
(*  - A JavaScript value that crosses a JSON boundary is a record          *)
(*    [ty, v]: ty is "num" (the number v), "str" (the decimal string of    *)
(*    v), "badstr" (a string that is no number), "infstr" (the string      *)
(*    "Infinity"), "null", "undef", "nan" or "inf".  Numbers that passed a *)
(*    finiteness check are plain integers.                                 *)
(*  - Time is counted in ticks of one second: TLC's integers are 32 bits   *)
(*    wide and the ten-year window does not fit in milliseconds.  The      *)
(*    source's "* 1000" factor is therefore absent from DayTicks.          *)
(*  - Route handlers keep no state between invocations, so the model       *)
(*    serves one top-level request at a time (variable active).  The       *)
(*    request that the spot-fallback synthesizer sends to the spot route   *)
(*    is a run of the spot handler, start to end, inside the one await of  *)
(*    the synthesizer (SpotRuns).                                          *)
(***************************************************************************)
EXTENDS Integers, Sequences, FiniteSets, TLC

VARIABLES
    clock,       \* Date.now(), in ticks
    active,      \* the route now serving a top-level request, or "none"
    spot,        \* the invocation of GET /api/btc
    hist,        \* the invocation of GET /api/btc/history
    cycle,       \* the invocation of GET /api/btc/cycle
    fng,         \* the invocation of GET /api/fng
    fngHistory,  \* the invocation of GET /api/fng/history
    norm,        \* the normalizer's input and results (SpecNorm)
    calc,        \* a displayed series and what the page derives from it (SpecCalc)
    page,        \* the state of Home and of its data hooks (SpecPage)
    journal      \* the journal file and the calls on the journal store (SpecJournal)

vars == <<clock, active, spot, hist, cycle, fng, fngHistory, norm, calc, page, journal>>

(***************************************************************************)
(* Bounds of the model.                                                    *)
(***************************************************************************)
\* how many ticks the clock advances past Now0
MaxTicks == 1
\* how many entries an upstream history body carries
MaxPts == 2

\* the instant the model starts at (2025-11-04T00:00:00Z, in seconds)
Now0 == 1762214400

(***************************************************************************)
(* JavaScript values.                                                      *)
(***************************************************************************)
Num(n) == [ty |-> "num", v |-> n]
Str(n) == [ty |-> "str", v |-> n]
BadStr == [ty |-> "badstr", v |-> 0]
InfStr == [ty |-> "infstr", v |-> 0]
Null == [ty |-> "null", v |-> 0]
Undefined == [ty |-> "undef", v |-> 0]
NaN == [ty |-> "nan", v |-> 0]
Infinity == [ty |-> "inf", v |-> 0]

\* Number(x)
ToNumber(x) ==
    CASE x.ty = "num" -> x
      [] x.ty = "str" -> Num(x.v)
      [] x.ty = "null" -> Num(0)
      [] x.ty = "infstr" -> Infinity
      [] x.ty = "inf" -> Infinity
      [] OTHER -> NaN

\* x == null
IsNullish(x) == x.ty \in {"null", "undef"}

\* Number.isNaN(x), for a number x
IsNaN(x) == x.ty = "nan"

\* Number.isFinite(x), for a number x
IsFinite(x) == x.ty = "num"

\* the truthiness of x in a condition
Truthy(x) ==
    CASE x.ty = "num" -> x.v # 0
      [] x.ty \in {"str", "badstr", "infstr", "inf"} -> TRUE
      [] OTHER -> FALSE

\* a number as JSON.stringify writes it and JSON.parse reads it back
JsonNumber(x) == IF x.ty \in {"nan", "inf"} THEN Null ELSE x

\* a / b * 100 for the inputs of the model, on which the quotient is whole
Pct(a, b) == (a * 100) \div b

Max(a, b) == IF a >= b THEN a ELSE b

(***************************************************************************)
(* Upstream replies.  A reply is what one outbound fetch ends in: the      *)
(* fetch rejects (network failure, or the AbortSignal timeout), or a       *)
(* response arrives with a status and a body that parses as JSON or not.   *)
(***************************************************************************)
MsgNetwork == "fetch failed"
MsgTimeout == "The operation was aborted due to timeout"
MsgSyntax == "Unexpected token < in JSON at position 0"
NoError == "undefined"

Rejects(message) == [kind |-> "reject", err |-> message, status |-> 0, parses |-> FALSE]
Responds(status, parses) == [kind |-> "http", err |-> NoError, status |-> status, parses |-> parses]

\* the replies that carry no usable body
BadReplies ==
    {Rejects(MsgNetwork), Rejects(MsgTimeout), Responds(429, TRUE), Responds(500, FALSE),
     Responds(200, FALSE)}

\* res.ok
ResOk(status) == status >= 200 /\ status <= 299

\* `HTTP ${res.status}`
HttpMessage(status) ==
    CASE status = 200 -> "HTTP 200"
      [] status = 429 -> "HTTP 429"
      [] status = 500 -> "HTTP 500"
      [] status = 502 -> "HTTP 502"
      [] OTHER -> "HTTP ???"

\* fetchJson: the parsed body, or the error it throws
fetchJson(reply, body) ==
    IF reply.kind = "reject" THEN [threw |-> TRUE, err |-> reply.err, data |-> body]
    ELSE IF ~ResOk(reply.status) THEN [threw |-> TRUE, err |-> HttpMessage(reply.status), data |-> body]
    ELSE IF ~reply.parses THEN [threw |-> TRUE, err |-> MsgSyntax, data |-> body]
    ELSE [threw |-> FALSE, err |-> NoError, data |-> body]

(***************************************************************************)
(* GET /api/btc: the spot-price chain.                                     *)
(***************************************************************************)
NoData == [none |-> TRUE]
NoResult == [ok |-> FALSE, name |-> "", data |-> NoData, error |-> NoError]
NoResponse == [status |-> 0, body |-> NoData]

Ok(name, data) == [ok |-> TRUE, name |-> name, data |-> data, error |-> NoError]
Fail(name, error) == [ok |-> FALSE, name |-> name, data |-> NoData, error |-> error]

\* the two fields of a quote body that its adapter reads: the price
\* (coinbase amount, kraken c[0], coincap priceUsd, coingecko usd) and the
\* 24h reference (kraken o, coincap changePercent24Hr, coingecko
\* usd_24h_change)
SpotBodies ==
    [price : {Undefined, Null, BadStr, InfStr, Str(65000), Num(500)},
     ref : {Undefined, Num(0), Str(50000)}]
NoBody == [price |-> Undefined, ref |-> Undefined]

BtcPayload(price, change24h, source, now) ==
    [price |-> price, change24h |-> change24h, source |-> source, ts |-> now]

fromCoinbase(reply, body, now) ==
    LET r == fetchJson(reply, body)
        amount == r.data.price
        price == IF IsNullish(amount) THEN Null ELSE ToNumber(amount)
    IN  IF r.threw THEN Fail("coinbase", r.err)
        ELSE IF IsNullish(price) \/ IsNaN(price)
             THEN Fail("coinbase", "missing/invalid price")
             ELSE Ok("coinbase", BtcPayload(price, Null, "coinbase", now))

\* ((price - openPrice) / openPrice) * 100 on JavaScript numbers
KrakenChange(price, openPrice) ==
    IF IsNullish(openPrice) \/ IsNaN(openPrice) \/ openPrice = Num(0) THEN Null
    ELSE IF openPrice.ty = "inf" THEN NaN
    ELSE IF price.ty = "inf" THEN Infinity
    ELSE Num(Pct(price.v - openPrice.v, openPrice.v))

\* fromKraken with the source label of the adapter it was copied from
fromKrakenMislabelled(reply, body, now) ==
    LET r == fetchJson(reply, body)
        last == r.data.price
        open == r.data.ref
        price == IF IsNullish(last) THEN Null ELSE ToNumber(last)
        openPrice == IF IsNullish(open) THEN Null ELSE ToNumber(open)
    IN  IF r.threw THEN Fail("kraken", r.err)
        ELSE IF IsNullish(price) \/ IsNaN(price)
             THEN Fail("kraken", "missing/invalid price")
             ELSE Ok("kraken", BtcPayload(price, KrakenChange(price, openPrice), "coinbase", now))

fromKraken(reply, body, now) ==
    LET r == fetchJson(reply, body)
        last == r.data.price
        open == r.data.ref
        price == IF IsNullish(last) THEN Null ELSE ToNumber(last)
        openPrice == IF IsNullish(open) THEN Null ELSE ToNumber(open)
    IN  IF r.threw THEN Fail("kraken", r.err)
        ELSE IF IsNullish(price) \/ IsNaN(price)
             THEN Fail("kraken", "missing/invalid price")
             ELSE Ok("kraken", BtcPayload(price, KrakenChange(price, openPrice), "kraken", now))

fromCoinCap(reply, body, now) ==
    LET r == fetchJson(reply, body)
        price == IF Truthy(r.data.price) THEN ToNumber(r.data.price) ELSE Null
        change24h == IF Truthy(r.data.ref) THEN ToNumber(r.data.ref) ELSE Null
    IN  IF r.threw THEN Fail("coincap", r.err)
        ELSE IF IsNullish(price) \/ IsNaN(price)
             THEN Fail("coincap", "missing/invalid price")
             ELSE Ok("coincap", BtcPayload(price, change24h, "coincap", now))

fromCoinGecko(reply, body, now) ==
    LET r == fetchJson(reply, body)
        price == IF IsNullish(r.data.price) THEN Null ELSE r.data.price
        change24h == IF IsNullish(r.data.ref) THEN Null ELSE r.data.ref
    IN  IF r.threw THEN Fail("coingecko", r.err)
        ELSE IF IsNullish(price) \/ IsNaN(ToNumber(price))
             THEN Fail("coingecko", "missing/invalid price")
             ELSE Ok("coingecko",
                     BtcPayload(ToNumber(price),
                                IF IsNullish(change24h) THEN Null ELSE ToNumber(change24h),
                                "coingecko", now))

\* const providers = [fromCoinbase, fromKraken, fromCoinCap, fromCoinGecko]
SpotProviders == <<"coinbase", "kraken", "coincap", "coingecko">>

SpotProvider(name, reply, body, now) ==
    CASE name = "coinbase" -> fromCoinbase(reply, body, now)
      [] name = "kraken" -> fromKraken(reply, body, now)
      [] name = "coincap" -> fromCoinCap(reply, body, now)
      [] name = "coingecko" -> fromCoinGecko(reply, body, now)

\* if (result.ok && result.data) return ...
SpotReturns(result) == result.ok /\ result.data # NoData

\* SpotFailure that drops the reason
SpotFailureNoReason(result) == [provider |-> result.name, error |-> "unknown error"]

\* failures.push({ provider: result.name, error: result.error ?? "unknown error" })
SpotFailure(result) ==
    [provider |-> result.name,
     error |-> IF result.error = NoError THEN "unknown error" ELSE result.error]

\* NextResponse.json(result.data): the payload as the caller parses it
SpotOkResponse(data) ==
    [status |-> 200,
     body |-> [price |-> JsonNumber(data.price), change24h |-> JsonNumber(data.change24h),
               source |-> data.source, ts |-> data.ts]]

SpotFailedResponse(failures) ==
    [status |-> 500,
     body |-> [error |-> "Failed to fetch BTC price from all providers",
               providers |-> failures]]

SpotIdle ==
    [pc |-> "idle", idx |-> 1, called |-> <<>>, inflight |-> {}, failures |-> <<>>,
     result |-> NoResult, response |-> NoResponse]

\* the handler is entered: providers and failures are initialised
SpotEntered == [SpotIdle EXCEPT !.pc = "call"]

\* SpotCalled that sends the next provider's request along with this one
SpotCalledAhead(s) ==
    LET ahead == IF s.idx < Len(SpotProviders) THEN {SpotProviders[s.idx + 1]} ELSE {}
    IN  [s EXCEPT !.pc = "wait",
                  !.called = Append(@, SpotProviders[s.idx]),
                  !.inflight = @ \cup {SpotProviders[s.idx]} \cup ahead]

\* provider() is called: its request goes out and the handler awaits it
SpotCalled(s) ==
    [s EXCEPT !.pc = "wait",
              !.called = Append(@, SpotProviders[s.idx]),
              !.inflight = @ \cup {SpotProviders[s.idx]}]

\* the awaited provider settles with result: one pass of the for loop
SpotSettled(s, result) ==
    LET failures == Append(s.failures, SpotFailure(result))
        base == [s EXCEPT !.result = result, !.inflight = @ \ {SpotProviders[s.idx]}]
    IN  IF SpotReturns(result)
        THEN [base EXCEPT !.pc = "done", !.response = SpotOkResponse(result.data)]
        ELSE IF s.idx < Len(SpotProviders)
             THEN [base EXCEPT !.pc = "call", !.idx = @ + 1, !.failures = failures]
             ELSE [base EXCEPT !.pc = "done", !.idx = @ + 1, !.failures = failures,
                               !.response = SpotFailedResponse(failures)]

\* what one provider's upstream can answer
SpotReplies ==
    {<<reply, NoBody>> : reply \in BadReplies}
        \cup {<<Responds(200, TRUE), body>> : body \in SpotBodies}

\* the results the provider now due can settle with at instant now
SpotResults(s, now) ==
    {SpotProvider(SpotProviders[s.idx], answer[1], answer[2], now) : answer \in SpotReplies}

\* the states in which the handler, entered in state s, can return
RECURSIVE SpotRuns(_, _)
SpotRuns(s, now) ==
    IF s.pc = "done" THEN {s}
    ELSE UNION {SpotRuns(SpotSettled(SpotCalled(s), result), now) :
                   result \in SpotResults(s, now)}

(***************************************************************************)
(* GET /api/btc/history: the history chain and its spot-fallback           *)
(* synthesizer.                                                            *)
(***************************************************************************)
RangeKeys == {"24h", "7d", "1m", "1y", "5y", "10y"}

\* 24 * 60 * 60 * 1000 milliseconds, in ticks
DayTicks == 24 * 60 * 60

\* RANGE_CONFIG (coincapInterval and BINANCE_CONFIG only shape the request)
RANGE_CONFIG ==
    [r \in RangeKeys |->
        CASE r = "24h" -> [days |-> 1, fallbackPoints |-> 48]
          [] r = "7d" -> [days |-> 7, fallbackPoints |-> 84]
          [] r = "1m" -> [days |-> 30, fallbackPoints |-> 90]
          [] r = "1y" -> [days |-> 365, fallbackPoints |-> 120]
          [] r = "5y" -> [days |-> 1825, fallbackPoints |-> 160]
          [] r = "10y" -> [days |-> 3650, fallbackPoints |-> 180]]

\* the values of the range query parameter: absent, empty, unknown, or a key
RangeParams == RangeKeys \cup {"null", "", "bogus"}

toRangeKey(value) ==
    IF value \in {"null", ""} THEN "24h"
    ELSE IF value \in DOMAIN RANGE_CONFIG THEN value
    ELSE "24h"

\* points sorted by (a, b) => a.t - b.t; Array.prototype.sort is stable
RECURSIVE InsertByT(_, _)
InsertByT(sorted, point) ==
    IF sorted = <<>> THEN <<point>>
    ELSE IF sorted[Len(sorted)].t <= point.t THEN Append(sorted, point)
    ELSE Append(InsertByT(SubSeq(sorted, 1, Len(sorted) - 1), point), sorted[Len(sorted)])

RECURSIVE SortByT(_)
SortByT(points) ==
    IF points = <<>> THEN <<>>
    ELSE InsertByT(SortByT(SubSeq(points, 1, Len(points) - 1)), points[Len(points)])

\* cleanPoints, on points whose t and p are JavaScript numbers
\* cleanPoints without the Number.isFinite filter
cleanPointsUnfiltered(points) ==
    SortByT([i \in 1..Len(points) |-> [t |-> points[i].t.v, p |-> points[i].p.v]])

cleanPoints(points) ==
    LET Finite(point) == IsFinite(point.t) /\ IsFinite(point.p)
        finite == SelectSeq(points, Finite)
    IN  SortByT([i \in 1..Len(finite) |-> [t |-> finite[i].t.v, p |-> finite[i].p.v]])

\* entries.map(entry => ({ t: Number(entry?.[0]), p: Number(entry?.[1]) }))
MapEntries(entries) ==
    [i \in 1..Len(entries) |-> [t |-> ToNumber(entries[i].t), p |-> ToNumber(entries[i].p)]]

SeriesPayload(range, source, points, now) ==
    [range |-> range, source |-> source, points |-> points, ts |-> now]

MsgNotArray == "(intermediate value).map is not a function"

\* the part of a history body its adapter reads (coingecko prices, coincap
\* data, the binance array): a list of entries, absent, or something that is
\* no array
HistBody(shape, entries) == [shape |-> shape, entries |-> entries]

\* the entries of a body: a timestamp (entry[0], entry.time) and a price
\* (entry[1], entry.priceUsd, the close entry[4])
RawEntries ==
    [t : {Num(Now0 - 20), Num(Now0 - 10), Num(Now0 - DayTicks - 7)},
     p : {BadStr, Num(500), Str(60000)}]

RECURSIVE SeqsUpTo(_, _)
SeqsUpTo(S, n) ==
    IF n = 0 THEN {<<>>}
    ELSE LET shorter == SeqsUpTo(S, n - 1)
         IN  shorter \cup {Append(q, x) : q \in {r \in shorter : Len(r) = n - 1}, x \in S}

HistBodies ==
    {HistBody("absent", <<>>), HistBody("other", <<>>)}
        \cup {HistBody("list", entries) : entries \in SeqsUpTo(RawEntries, MaxPts)}

\* what one history provider's upstream can answer
HistReplies ==
    {<<reply, HistBody("absent", <<>>)>> : reply \in BadReplies}
        \cup {<<Responds(200, TRUE), body>> : body \in HistBodies}

histFromCoinGecko(range, reply, body, now) ==
    LET r == fetchJson(reply, body)
        prices == IF r.data.shape = "absent" THEN <<>> ELSE r.data.entries
        points == cleanPoints(MapEntries(prices))
    IN  IF r.threw THEN Fail("coingecko", r.err)
        ELSE IF r.data.shape = "other" THEN Fail("coingecko", MsgNotArray)
        ELSE IF Len(points) < 2 THEN Fail("coingecko", "insufficient points")
        ELSE Ok("coingecko", SeriesPayload(range, "coingecko", points, now))

histFromCoinCap(range, reply, body, now) ==
    LET r == fetchJson(reply, body)
        data == IF r.data.shape = "absent" THEN <<>> ELSE r.data.entries
        points == cleanPoints(MapEntries(data))
    IN  IF r.threw THEN Fail("coincap", r.err)
        ELSE IF r.data.shape = "other" THEN Fail("coincap", MsgNotArray)
        ELSE IF Len(points) < 2 THEN Fail("coincap", "insufficient points")
        ELSE Ok("coincap", SeriesPayload(range, "coincap", points, now))

\* called is the adapter's own now, read before the request goes out
fromBinance(range, reply, body, called, now) ==
    LET r == fetchJson(reply, body)
        days == RANGE_CONFIG[range].days
        start == called - days * DayTicks
        data == IF r.data.shape = "absent" THEN <<>> ELSE r.data.entries
        InWindow(point) ==
            IsFinite(point.t) /\ point.t.v >= start /\ point.t.v <= called
        points == cleanPoints(SelectSeq(MapEntries(data), InWindow))
    IN  IF r.threw THEN Fail("binance", r.err)
        ELSE IF r.data.shape = "other" THEN Fail("binance", MsgNotArray)
        ELSE IF Len(points) < 2 THEN Fail("binance", "insufficient points")
        ELSE Ok("binance", SeriesPayload(range, "binance", points, now))

\* what fromSpotFallback reads of the response to its fetch of /api/btc:
\* btcRes.status and btcData?.price
SpotAnswer(response) ==
    [status |-> response.status,
     price |-> IF response.status = 200 THEN response.body.price ELSE Undefined]

\* the answers the spot route can give to a request that arrives at now
NestedAnswers ==
    [now \in Now0..(Now0 + MaxTicks) |->
        {SpotAnswer(run.response) : run \in SpotRuns(SpotEntered, now)}]

\* the nested fetch ends: it rejects, or the spot route answers
FetchRejected(message) ==
    [kind |-> "reject", err |-> message, status |-> 0, price |-> Undefined]
FetchAnswered(answer) ==
    [kind |-> "response", err |-> NoError, status |-> answer.status, price |-> answer.price]

NoFetched == FetchRejected(NoError)

\* fromSpotFallback without the check of the price
fromSpotFallbackUnchecked(range, btcRes, called, now) ==
    LET days == RANGE_CONFIG[range].days
        fallbackPoints == RANGE_CONFIG[range].fallbackPoints
        start == called - days * DayTicks
        step == Max(1, (called - start) \div (fallbackPoints - 1))
        price == IF IsNullish(btcRes.price) THEN Null ELSE ToNumber(btcRes.price)
        points == [i \in 1..fallbackPoints |-> [t |-> start + (i - 1) * step, p |-> price.v]]
    IN  IF btcRes.kind = "reject" THEN Fail("spot-fallback", btcRes.err)
        ELSE IF ~ResOk(btcRes.status)
             THEN Fail("spot-fallback", HttpMessage(btcRes.status))
             ELSE Ok("spot-fallback", SeriesPayload(range, "spot-fallback", points, now))

\* fromSpotFallback with the window divided by the number of points
fromSpotFallbackWideStep(range, btcRes, called, now) ==
    LET days == RANGE_CONFIG[range].days
        fallbackPoints == RANGE_CONFIG[range].fallbackPoints
        start == called - days * DayTicks
        step == Max(1, (called - start) \div fallbackPoints)
        price == IF IsNullish(btcRes.price) THEN Null ELSE ToNumber(btcRes.price)
        points == [i \in 1..fallbackPoints |-> [t |-> start + (i - 1) * step, p |-> price.v]]
    IN  IF btcRes.kind = "reject" THEN Fail("spot-fallback", btcRes.err)
        ELSE IF ~ResOk(btcRes.status)
             THEN Fail("spot-fallback", HttpMessage(btcRes.status))
             ELSE IF IsNullish(price) \/ IsNaN(price)
                  THEN Fail("spot-fallback", "missing/invalid spot price")
                  ELSE Ok("spot-fallback",
                          SeriesPayload(range, "spot-fallback", points, now))

\* called is the synthesizer's own now, read before the request goes out
fromSpotFallback(range, btcRes, called, now) ==
    LET days == RANGE_CONFIG[range].days
        fallbackPoints == RANGE_CONFIG[range].fallbackPoints
        start == called - days * DayTicks
        step == Max(1, (called - start) \div (fallbackPoints - 1))
        price == IF IsNullish(btcRes.price) THEN Null ELSE ToNumber(btcRes.price)
        points == [i \in 1..fallbackPoints |-> [t |-> start + (i - 1) * step, p |-> price.v]]
    IN  IF btcRes.kind = "reject" THEN Fail("spot-fallback", btcRes.err)
        ELSE IF ~ResOk(btcRes.status)
             THEN Fail("spot-fallback", HttpMessage(btcRes.status))
             ELSE IF IsNullish(price) \/ IsNaN(price)
                  THEN Fail("spot-fallback", "missing/invalid spot price")
                  ELSE Ok("spot-fallback",
                          SeriesPayload(range, "spot-fallback", points, now))

\* const providers = [fromCoinGecko, fromCoinCap, fromBinance, fromSpotFallback]
HistProviders == <<"coingecko", "coincap", "binance", "spot-fallback">>

HistProvider(name, range, reply, body, called, now) ==
    CASE name = "coingecko" -> histFromCoinGecko(range, reply, body, now)
      [] name = "coincap" -> histFromCoinCap(range, reply, body, now)
      [] name = "binance" -> fromBinance(range, reply, body, called, now)

\* if (result.ok && result.data) return ...
HistReturns(result) == result.ok /\ result.data # NoData

\* failures.push({ provider: result.name, error: result.error ?? "unknown error" })
HistFailure(result) ==
    [provider |-> result.name,
     error |-> IF result.error = NoError THEN "unknown error" ELSE result.error]

HistOkResponse(data) == [status |-> 200, body |-> data]

HistFailedResponse(range, failures) ==
    [status |-> 500,
     body |-> [error |-> "Failed to fetch BTC chart data from all providers",
               range |-> range, providers |-> failures]]

\* what the adapter now running received from its upstream
Upstream(reply, body) == [reply |-> reply, body |-> body]
NoUpstream == Upstream(Rejects(NoError), HistBody("absent", <<>>))

HistIdle ==
    [pc |-> "idle", range |-> "24h", idx |-> 1, called |-> <<>>, inflight |-> {},
     failures |-> <<>>, now |-> 0, upstream |-> NoUpstream, fetched |-> NoFetched,
     result |-> NoResult, response |-> NoResponse]

\* the handler is entered with the request's range parameter
HistEntered(param) == [HistIdle EXCEPT !.pc = "call", !.range = toRangeKey(param)]

\* provider(range) is called at instant now: its request goes out
HistCalled(h, now) ==
    [h EXCEPT !.pc = "wait",
              !.now = now,
              !.upstream = NoUpstream,
              !.called = Append(@, HistProviders[h.idx]),
              !.inflight = @ \cup {HistProviders[h.idx]}]

\* the awaited provider settles with result: one pass of the for loop
HistSettled(h, result) ==
    LET failures == Append(h.failures, HistFailure(result))
        base == [h EXCEPT !.result = result, !.inflight = @ \ {HistProviders[h.idx]}]
    IN  IF HistReturns(result)
        THEN [base EXCEPT !.pc = "done", !.response = HistOkResponse(result.data)]
        ELSE IF h.idx < Len(HistProviders)
             THEN [base EXCEPT !.pc = "call", !.idx = @ + 1, !.failures = failures]
             ELSE [base EXCEPT !.pc = "done", !.idx = @ + 1, !.failures = failures,
                               !.response = HistFailedResponse(h.range, failures)]

(***************************************************************************)
(* GET /api/btc/cycle: the dominance chain.                                *)
(***************************************************************************)
NoDominance == [value |-> Null, source |-> "none"]

\* the fields of a global-market body that the adapters read: coingecko's
\* market_cap_percentage.btc in first; coinpaprika's
\* bitcoin_dominance_percentage, btc_dominance and market_cap_change_24h
DominanceBodies ==
    [first : {Undefined, Null, BadStr, Num(57), Num(250)},
     second : {Undefined, Str(58)},
     third : {Undefined, Num(-3), Num(4)}]
NoDominanceBody == [first |-> Undefined, second |-> Undefined, third |-> Undefined]

DominanceReplies ==
    {<<reply, NoDominanceBody>> : reply \in BadReplies}
        \cup {<<Responds(200, TRUE), body>> : body \in DominanceBodies}

\* the adapter's result, or NoDominance for its null
fetchDominanceFromCoinGecko(reply, body) ==
    LET r == fetchJson(reply, body)
        value == ToNumber(r.data.first)
    IN  IF r.threw THEN NoDominance
        ELSE IF ~IsFinite(value) THEN NoDominance
        ELSE [value |-> value, source |-> "coingecko"]

fetchDominanceFromCoinPaprika(reply, body) ==
    LET r == fetchJson(reply, body)
        candidates == <<ToNumber(r.data.first), ToNumber(r.data.second), ToNumber(r.data.third)>>
        Valid(value) == IsFinite(value) /\ value.v >= 0 /\ value.v <= 100
        matching == SelectSeq(candidates, Valid)
    IN  IF r.threw THEN NoDominance
        ELSE IF matching = <<>> THEN NoDominance
        ELSE [value |-> matching[1], source |-> "coinpaprika"]

\* a ?? b that takes b whatever a is
OrElseSecond(a, b) == b

\* a ?? b on adapter results
OrElse(a, b) == IF a = NoDominance THEN b ELSE a

Unavailable == [value |-> Null, source |-> "unavailable"]

\* NextResponse.json({...cycle, btcDominance, dominanceSource, ts}); the
\* halving statistics of computeCycleStats are left out
CycleResponse(dominance, now) ==
    [status |-> 200,
     body |-> [btcDominance |-> JsonNumber(dominance.value),
               dominanceSource |-> dominance.source, ts |-> now]]

CycleIdle ==
    [pc |-> "idle", now |-> 0, called |-> <<>>, first |-> NoDominance,
     second |-> NoDominance, response |-> NoResponse]

\* const now = Date.now(); the first adapter's request goes out
CycleEntered(now) == [CycleIdle EXCEPT !.pc = "waitA", !.now = now, !.called = <<"coingecko">>]

\* fetchDominanceFromCoinGecko settles with a
CycleFirstSettled(c, a) ==
    IF a # NoDominance
    THEN [c EXCEPT !.pc = "done", !.first = a, !.response = CycleResponse(a, c.now)]
    ELSE [c EXCEPT !.pc = "waitB", !.first = a, !.called = Append(@, "coinpaprika")]

\* fetchDominanceFromCoinPaprika settles with b
CycleSecondSettled(c, b) ==
    [c EXCEPT !.pc = "done",
              !.second = b,
              !.response = CycleResponse(OrElse(c.first, OrElse(b, Unavailable)), c.now)]

(***************************************************************************)
(* GET /api/fng and GET /api/fng/history: the sentiment routes.            *)
(***************************************************************************)
\* the fields of data.data[0] that the route reads
FngBodies ==
    [value : {Undefined, BadStr, Str(25)},
     value_classification : {Undefined, BadStr},
     timestamp : {Undefined, Str(Now0)}]
NoFngBody == [value |-> Undefined, value_classification |-> Undefined, timestamp |-> Undefined]

FngReplies ==
    {<<reply, NoFngBody>> : reply \in BadReplies}
        \cup {<<Responds(200, TRUE), body>> : body \in FngBodies}

FngIdle == [pc |-> "idle", response |-> NoResponse, thrown |-> NoError]

\* the handler is entered and awaits fetch(url)
FngEntered == [FngIdle EXCEPT !.pc = "wait"]

\* the rest of the handler once fetch(url) settles: there is no try block, so
\* a rejected fetch and a body that does not parse leave the handler as a throw
FngSettled(f, reply, item, now) ==
    IF reply.kind = "reject" THEN [f EXCEPT !.pc = "threw", !.thrown = reply.err]
    ELSE IF ~ResOk(reply.status)
         THEN [f EXCEPT !.pc = "done",
                        !.response = [status |-> 500,
                                      body |-> [error |-> "Failed to fetch Fear & Greed"]]]
         ELSE IF ~reply.parses THEN [f EXCEPT !.pc = "threw", !.thrown = MsgSyntax]
         ELSE [f EXCEPT !.pc = "done",
                        !.response =
                            [status |-> 200,
                             body |-> [value |-> IF Truthy(item.value)
                                                 THEN JsonNumber(ToNumber(item.value))
                                                 ELSE Null,
                                       label |-> IF IsNullish(item.value_classification)
                                                 THEN Null
                                                 ELSE item.value_classification,
                                       timestamp |-> IF Truthy(item.timestamp)
                                                     THEN JsonNumber(ToNumber(item.timestamp))
                                                     ELSE Null,
                                       source |-> "alternative.me",
                                       ts |-> now]]]

\* RANGE_TO_DAYS
RANGE_TO_DAYS ==
    [r \in RangeKeys |->
        CASE r = "24h" -> 1
          [] r = "7d" -> 7
          [] r = "1m" -> 30
          [] r = "1y" -> 365
          [] r = "5y" -> 365 * 5
          [] r = "10y" -> 365 * 10]

fngToRangeKey(value) ==
    IF value \in {"null", ""} THEN "24h"
    ELSE IF value \in DOMAIN RANGE_TO_DAYS THEN value
    ELSE "24h"

\* the items of data.data: a timestamp in seconds and a value, as strings
FngRawEntries ==
    [t : {Str(Now0 - 10), Str(Now0 - DayTicks - 7), Undefined},
     p : {BadStr, Str(25)}]

FngHistoryBodies ==
    {HistBody("absent", <<>>), HistBody("other", <<>>)}
        \cup {HistBody("list", entries) : entries \in SeqsUpTo(FngRawEntries, MaxPts)}

FngHistoryReplies ==
    {<<reply, HistBody("absent", <<>>)>> : reply \in BadReplies}
        \cup {<<Responds(200, TRUE), body>> : body \in FngHistoryBodies}

FngHistoryIdle == [pc |-> "idle", range |-> "24h", now |-> 0, response |-> NoResponse]

\* the handler is entered at instant now and awaits the fetch
FngHistoryEntered(param, now) ==
    [FngHistoryIdle EXCEPT !.pc = "wait", !.range = fngToRangeKey(param), !.now = now]

\* { error: `Failed to fetch F&G history: ${detail}` }, status 502
FngHistoryFailed(detail) ==
    [status |-> 502, body |-> [error |-> "Failed to fetch F&G history", detail |-> detail]]

\* the try block once the fetch settles; a timestamp of s seconds is s ticks
FngHistorySettled(f, reply, body) ==
    LET days == RANGE_TO_DAYS[f.range]
        start == f.now - days * DayTicks
        items == IF body.shape = "absent" THEN <<>> ELSE body.entries
        mapped == [i \in 1..Len(items) |->
                      [t |-> ToNumber(items[i].t), v |-> ToNumber(items[i].p)]]
        Finite(point) == IsFinite(point.t) /\ IsFinite(point.v)
        InWindow(point) == point.t.v >= start /\ point.t.v <= f.now
        kept == SelectSeq(SelectSeq(mapped, Finite), InWindow)
        points == SortByT([i \in 1..Len(kept) |-> [t |-> kept[i].t.v, v |-> kept[i].v.v]])
    IN  IF reply.kind = "reject"
        THEN [f EXCEPT !.pc = "done", !.response = FngHistoryFailed(reply.err)]
        ELSE IF ~ResOk(reply.status)
             THEN [f EXCEPT !.pc = "done",
                            !.response = FngHistoryFailed(HttpMessage(reply.status))]
             ELSE IF ~reply.parses
                  THEN [f EXCEPT !.pc = "done", !.response = FngHistoryFailed(MsgSyntax)]
                  ELSE IF body.shape = "other"
                       THEN [f EXCEPT !.pc = "done",
                                      !.response = FngHistoryFailed(MsgNotArray)]
                       ELSE [f EXCEPT !.pc = "done",
                                      !.response =
                                          [status |-> 200,
                                           body |-> [range |-> f.range,
                                                     source |-> "alternative.me",
                                                     points |-> points,
                                                     ts |-> f.now]]]

(***************************************************************************)
(* The client's series normalizer.                                         *)
(***************************************************************************)
\* deduped.set(t, p): a Map keeps the position of a key it already holds
\* deduped.set(t, p) that leaves a key it already holds alone
MapSetFirst(entries, t, p) ==
    IF \E i \in 1..Len(entries) : entries[i].t = t
    THEN entries
    ELSE Append(entries, [t |-> t, p |-> p])

\* deduped.set(t, p) as if every key were new
MapSetAppend(entries, t, p) == Append(entries, [t |-> t, p |-> p])

MapSet(entries, t, p) ==
    IF \E i \in 1..Len(entries) : entries[i].t = t
    THEN [i \in 1..Len(entries) |->
             IF entries[i].t = t THEN [t |-> t, p |-> p] ELSE entries[i]]
    ELSE Append(entries, [t |-> t, p |-> p])

\* a loop that keeps the last raw point of each timestamp, finite or not, and
\* only then drops the ones that are not finite
DedupedBeforeFinite(rawPoints) ==
    LET T(i) == ToNumber(rawPoints[i].t)
        P(i) == ToNumber(rawPoints[i].p)
        Last(i) == IsFinite(T(i)) /\ \A j \in DOMAIN rawPoints :
                                        (j > i /\ IsFinite(T(j))) => T(j).v # T(i).v
        RECURSIVE Upto(_)
        Upto(n) == IF n = 0 THEN <<>>
                   ELSE IF Last(n) /\ IsFinite(P(n))
                        THEN Append(Upto(n - 1), [t |-> T(n).v, p |-> P(n).v])
                        ELSE Upto(n - 1)
    IN  Upto(Len(rawPoints))

\* the for loop that fills deduped from the raw points
RECURSIVE Deduped(_)
Deduped(rawPoints) ==
    IF rawPoints = <<>> THEN <<>>
    ELSE LET before == Deduped(SubSeq(rawPoints, 1, Len(rawPoints) - 1))
             rawPoint == rawPoints[Len(rawPoints)]
             t == ToNumber(rawPoint.t)
             p == ToNumber(rawPoint.p)
         IN  IF ~IsFinite(t) \/ ~IsFinite(p) THEN before ELSE MapSet(before, t.v, p.v)

\* point.p > 1000 && point.p < 5_000_000
InBand(point) == point.p > 1000 /\ point.p < 5000000

\* numbers sorted by (a, b) => a - b
RECURSIVE SortNumbers(_)
SortNumbers(numbers) ==
    IF numbers = <<>> THEN <<>>
    ELSE LET n == Len(numbers)
             head == SortNumbers(SubSeq(numbers, 1, n - 1))
             x == numbers[n]
             Below(y) == y <= x
             Above(y) == y > x
         IN  SelectSeq(head, Below) \o <<x>> \o SelectSeq(head, Above)

\* sortedPrices[Math.floor(sortedPrices.length / 2)]
MedianPrice(points) ==
    LET sortedPrices == SortNumbers([i \in 1..Len(points) |-> points[i].p])
    IN  sortedPrices[(Len(sortedPrices) \div 2) + 1]

\* the comparison with half and twice the median
NearMedianTwofold(point, median) == 2 * point.p >= median /\ point.p <= median * 2

\* point.p >= median * 0.2 && point.p <= median * 5, on whole prices.  The
\* code compares with the double median * 0.2, which can lie just above the
\* fifth of the median (15 * 0.2 > 3): the two agree unless median = 5 * p,
\* a case the prices of the model stay away from.
NearMedian(point, median) == 5 * point.p >= median /\ point.p <= median * 5

\* the median block entered only above 5 points
OutlierFilteredOverFive(cleanedPoints) ==
    IF Len(cleanedPoints) > 5
    THEN LET median == MedianPrice(cleanedPoints)
             Near(point) == NearMedian(point, median)
         IN  SelectSeq(cleanedPoints, Near)
    ELSE cleanedPoints

\* the if (cleanedPoints.length >= 5) block
OutlierFiltered(cleanedPoints) ==
    IF Len(cleanedPoints) >= 5
    THEN LET median == MedianPrice(cleanedPoints)
             Near(point) == NearMedian(point, median)
         IN  SelectSeq(cleanedPoints, Near)
    ELSE cleanedPoints

\* normalizeChartPayload: the payload it returns, or threw
normalizeChartPayload(input) ==
    LET deduped == Deduped(input.points)
        cleanedPoints == OutlierFiltered(SortByT(SelectSeq(deduped, InBand)))
    IN  IF Len(cleanedPoints) < 2
        THEN [threw |-> TRUE, value |-> [input EXCEPT !.points = <<>>]]
        ELSE [threw |-> FALSE, value |-> [input EXCEPT !.points = cleanedPoints]]

\* points of whole numbers as the JavaScript values they are
JsPoints(points) == [i \in 1..Len(points) |-> [t |-> Num(points[i].t), p |-> Num(points[i].p)]]

(***************************************************************************)
(* The normalizer as a pure function: raw inputs and two applications.     *)
(***************************************************************************)
\* how many raw points a short input carries
MaxShort == 3
\* how many raw points a long input carries
MaxLong == 6

\* short inputs: repeated and missing timestamps, prices of every kind
ShortRawPoints ==
    [t : {Num(10), Num(20), Undefined},
     p : {BadStr, Num(500), Num(2000), Str(3000), Num(6000000)}]

\* long inputs: point i has timestamp SlotTs(i), out of order
SlotTs(i) == ((i * 3) % 8) * 10 + i
LongPrices == {Num(500), Num(2000), Num(3000), Num(12000), Num(16000)}

LongInput(n, prices) == [i \in 1..n |-> [t |-> Num(SlotTs(i)), p |-> prices[i]]]

\* a long input whose last point repeats the timestamp of the first
RepeatInput(n, prices) ==
    [i \in 1..n |-> [t |-> Num(SlotTs(IF i = n THEN 1 ELSE i)), p |-> prices[i]]]

NoNormalized == [threw |-> FALSE, value |-> SeriesPayload("24h", "", <<>>, 0)]
NormIdle == [stage |-> "idle", input |-> SeriesPayload("24h", "", <<>>, 0),
             once |-> NoNormalized, twice |-> NoNormalized]

\* a payload with the raw points, as the fetcher hands it to the normalizer
NormInput(rawPoints) ==
    [NormIdle EXCEPT !.stage = "raw",
                     !.input = SeriesPayload("24h", "coingecko", rawPoints, Now0)]

\* normalizeChartPayload(input)
NormalizeOnce ==
    /\ norm.stage = "raw"
    /\ norm' = [norm EXCEPT !.stage = "once", !.once = normalizeChartPayload(norm.input)]
    /\ UNCHANGED <<clock, active, spot, hist, cycle, fng, fngHistory, calc, page, journal>>

\* normalizeChartPayload applied to its own result
NormalizeAgain ==
    /\ norm.stage = "once"
    /\ ~norm.once.threw
    /\ norm' = [norm EXCEPT
                   !.stage = "twice",
                   !.twice = normalizeChartPayload(
                                 [norm.once.value EXCEPT !.points = JsPoints(@)])]
    /\ UNCHANGED <<clock, active, spot, hist, cycle, fng, fngHistory, calc, page, journal>>

(***************************************************************************)
(* The page's derived values: a series of chart points and what Home       *)
(* computes from it.  Prices are whole numbers; a quotient the code forms  *)
(* is kept as its numerator and denominator.                               *)
(***************************************************************************)
\* how many points a short series carries
MaxSeries == 5
\* how many points the longest ramp carries
MaxRamp == 10

\* the periods of the two averages the page draws
ShortPeriod == 50
LongPeriod == 200

\* an entry of a moving average: null, or rollingSum / period
NoAverage == [defined |-> FALSE, sum |-> 0, period |-> 1]
Average(rollingSum, period) == [defined |-> TRUE, sum |-> rollingSum, period |-> period]

\* what pass idx = n - 1 of the loop does to rollingSum, were it to keep every point
PassKeepAll(points, period, n) == points[n].p

\* what pass idx = n - 1 of the loop does to rollingSum: it adds points[idx].p
\* and, from idx = period on, takes points[idx - period].p away
Pass(points, period, n) ==
    points[n].p - (IF n - 1 >= period THEN points[n - period].p ELSE 0)

\* rollingSum as the passes from to to leave it, the passes taken by halves
RECURSIVE RollingSum(_, _, _, _)
RollingSum(points, period, from, to) ==
    IF from > to THEN 0
    ELSE IF from = to THEN Pass(points, period, from)
    ELSE RollingSum(points, period, from, (from + to) \div 2)
             + RollingSum(points, period, ((from + to) \div 2) + 1, to)

\* movingAverage that starts one point early
movingAverageEarly(points, period) ==
    IF Len(points) = 0 \/ period <= 0
    THEN [i \in 1..Len(points) |-> NoAverage]
    ELSE [i \in 1..Len(points) |->
             IF i - 1 >= period - 2
             THEN Average(RollingSum(points, period, 1, i), period)
             ELSE NoAverage]

\* movingAverage that starts one point late
movingAverageLate(points, period) ==
    IF Len(points) = 0 \/ period <= 0
    THEN [i \in 1..Len(points) |-> NoAverage]
    ELSE [i \in 1..Len(points) |->
             IF i - 1 >= period
             THEN Average(RollingSum(points, period, 1, i), period)
             ELSE NoAverage]

\* movingAverage(points, period); entry i is result[i - 1]
movingAverage(points, period) ==
    IF Len(points) = 0 \/ period <= 0
    THEN [i \in 1..Len(points) |-> NoAverage]
    ELSE [i \in 1..Len(points) |->
             IF i - 1 >= period - 1
             THEN Average(RollingSum(points, period, 1, i), period)
             ELSE NoAverage]

\* latestMA50, latestMA200: [...series].reverse().find(value => value != null) ?? null
latestMA(series) ==
    IF \A i \in DOMAIN series : ~series[i].defined THEN NoAverage
    ELSE series[CHOOSE i \in DOMAIN series :
                    /\ series[i].defined
                    /\ \A j \in DOMAIN series : j > i => ~series[j].defined]

\* short series: every choice of small prices, timestamps ten apart
SmallPrices == 1..5
ShortSeries(prices) == [i \in 1..Len(prices) |-> [t |-> 10 * i, p |-> prices[i]]]

\* a ramp of n points
Ramp(n) == [i \in 1..n |-> [t |-> 10 * i, p |-> i]]

Periods == {0, 1, 2, 3, ShortPeriod, LongPeriod}

\* how many points a long series carries after its first 200
MaxTail == 3

\* long series: 150 points at one price, 50 at another, then a tail
TailPrices == {1001, 2000, 2200}
LongSeries(first, second, tail) ==
    [i \in 1..(200 + Len(tail)) |->
        [t |-> 10 * i,
         p |-> IF i <= 150 THEN first ELSE IF i <= 200 THEN second ELSE tail[i - 200]]]

\* a series of n points that steps up ten points before its end
Step(n) == [i \in 1..n |-> [t |-> 10 * i, p |-> IF i <= n - 10 THEN 1800 ELSE 2200]]

\* a < b, a <= b on entries that are present
Below(a, b) == a.sum * b.period < b.sum * a.period
NotAbove(a, b) == a.sum * b.period <= b.sum * a.period

NoCross == [type |-> "none", t |-> 0]

\* one pass of the for loop in which a death cross is from above to not above
CrossAtReverse(ma50Series, ma200Series, idx) ==
    LET prev50 == ma50Series[idx]
        prev200 == ma200Series[idx]
        curr50 == ma50Series[idx + 1]
        curr200 == ma200Series[idx + 1]
    IN  IF ~prev50.defined \/ ~prev200.defined \/ ~curr50.defined \/ ~curr200.defined
        THEN "none"
        ELSE IF NotAbove(prev50, prev200) /\ Below(curr200, curr50) THEN "golden"
        ELSE IF Below(prev200, prev50) /\ NotAbove(curr50, curr200) THEN "death"
        ELSE "none"

\* one pass of the for loop of crossSignal: the kind of transition between
\* the entries idx - 1 and idx, which are at idx and idx + 1 here
CrossAt(ma50Series, ma200Series, idx) ==
    LET prev50 == ma50Series[idx]
        prev200 == ma200Series[idx]
        curr50 == ma50Series[idx + 1]
        curr200 == ma200Series[idx + 1]
    IN  IF ~prev50.defined \/ ~prev200.defined \/ ~curr50.defined \/ ~curr200.defined
        THEN "none"
        ELSE IF NotAbove(prev50, prev200) /\ Below(curr200, curr50) THEN "golden"
        ELSE IF NotAbove(prev200, prev50) /\ Below(curr50, curr200) THEN "death"
        ELSE "none"

\* the passes of the for loop from idx = high down to idx = low: the first
\* transition met, the passes taken by halves
RECURSIVE CrossFrom(_, _, _, _, _)
CrossFrom(chartPoints, ma50Series, ma200Series, high, low) ==
    IF low > high THEN NoCross
    ELSE IF low = high
         THEN IF CrossAt(ma50Series, ma200Series, low) = "none" THEN NoCross
              ELSE [type |-> CrossAt(ma50Series, ma200Series, low),
                    t |-> chartPoints[low + 1].t]
         ELSE LET mid == (low + high) \div 2
                  newer == CrossFrom(chartPoints, ma50Series, ma200Series, high, mid + 1)
              IN  IF newer # NoCross THEN newer
                  ELSE CrossFrom(chartPoints, ma50Series, ma200Series, mid, low)

\* the passes run from the oldest pair of entries to the newest
RECURSIVE CrossFromOldest(_, _, _, _, _)
CrossFromOldest(chartPoints, ma50Series, ma200Series, high, low) ==
    IF low > high THEN NoCross
    ELSE IF low = high
         THEN CrossFrom(chartPoints, ma50Series, ma200Series, high, low)
         ELSE LET mid == (low + high) \div 2
                  older == CrossFromOldest(chartPoints, ma50Series, ma200Series, mid, low)
              IN  IF older # NoCross THEN older
                  ELSE CrossFromOldest(chartPoints, ma50Series, ma200Series, high, mid + 1)

\* crossSignal that reports the oldest transition
crossSignalOldest(chartPoints, ma50Series, ma200Series) ==
    IF Len(chartPoints) < 2 THEN NoCross
    ELSE CrossFromOldest(chartPoints, ma50Series, ma200Series, Len(chartPoints) - 1, 1)

\* crossSignal
crossSignal(chartPoints, ma50Series, ma200Series) ==
    IF Len(chartPoints) < 2 THEN NoCross
    ELSE CrossFrom(chartPoints, ma50Series, ma200Series, Len(chartPoints) - 1, 1)

Abs(n) == IF n < 0 THEN 0 - n ELSE n

\* the while loop of findNearestPointIndex; left, right and mid count from 0
RECURSIVE Bisect(_, _, _, _)
Bisect(points, targetTs, left, right) ==
    IF left > right THEN [found |-> FALSE, at |-> left]
    ELSE LET mid == (left + right) \div 2
             value == points[mid + 1].t
         IN  IF value < targetTs THEN Bisect(points, targetTs, mid + 1, right)
             ELSE IF value > targetTs THEN Bisect(points, targetTs, left, mid - 1)
             ELSE [found |-> TRUE, at |-> mid]

\* findNearestPointIndex that gives a tie to the later point
findNearestPointIndexLater(points, targetTs) ==
    LET search == Bisect(points, targetTs, 0, Len(points) - 1)
        left == search.at
    IN  IF Len(points) = 0 THEN -1
        ELSE IF search.found THEN search.at
        ELSE IF left >= Len(points) THEN Len(points) - 1
        ELSE IF left <= 0 THEN 0
        ELSE IF Abs(points[left].t - targetTs) < Abs(points[left + 1].t - targetTs)
             THEN left - 1
             ELSE left

\* findNearestPointIndex; the index counts from 0
findNearestPointIndex(points, targetTs) ==
    LET search == Bisect(points, targetTs, 0, Len(points) - 1)
        left == search.at
    IN  IF Len(points) = 0 THEN -1
        ELSE IF search.found THEN search.at
        ELSE IF left >= Len(points) THEN Len(points) - 1
        ELSE IF left <= 0 THEN 0
        ELSE IF Abs(points[left].t - targetTs) <= Abs(points[left + 1].t - targetTs)
             THEN left - 1
             ELSE left

\* the timestamps a pointer can ask for: on, between, before and after the points
Targets(points) ==
    IF Len(points) <= MaxRamp
    THEN {5 * k : k \in 0..(2 * Len(points) + 3)} \cup {12, 18}
    ELSE {5 * k : k \in (2 * Len(points) - 3)..(2 * Len(points) + 1)} \cup {5, 12}

\* a value the page shows: null, or the quotient (a / b) * 100 kept as a * 100 over b
NoValue == [null |-> TRUE, num |-> 0, den |-> 1]
Percent(a, b) == [null |-> FALSE, num |-> a * 100, den |-> b]

\* hoverIndex: null or an index
NoIndex == [null |-> TRUE, index |-> 0]
Index(i) == [null |-> FALSE, index |-> i]

\* Math.min(...points.map(p => p.p)) and Math.max(...) of buildChart
minY(points) == CHOOSE y \in {points[i].p : i \in DOMAIN points} : \A i \in DOMAIN points : y <= points[i].p
maxY(points) == CHOOSE y \in {points[i].p : i \in DOMAIN points} : \A i \in DOMAIN points : y >= points[i].p

\* rangePerformance over the last price
rangePerformanceOverLast(chartPoints) ==
    LET firstPrice == chartPoints[1].p
        lastPrice == chartPoints[Len(chartPoints)].p
    IN  IF firstPrice = 0 THEN NoValue ELSE Percent(lastPrice - firstPrice, lastPrice)

\* rangePerformance, of a series that has a first and a last point
rangePerformance(chartPoints) ==
    LET firstPrice == chartPoints[1].p
        lastPrice == chartPoints[Len(chartPoints)].p
    IN  IF firstPrice = 0 THEN NoValue ELSE Percent(lastPrice - firstPrice, firstPrice)

\* volatilityPct, of a series buildChart has a shape for
volatilityPct(chartPoints) ==
    IF chartPoints[1].p = 0 THEN NoValue
    ELSE Percent(maxY(chartPoints) - minY(chartPoints), chartPoints[1].p)

\* activePointIndex that trusts hoverIndex
activePointIndexTrusting(chartPoints, hoverIndex) ==
    IF hoverIndex.null THEN Len(chartPoints) - 1 ELSE hoverIndex.index

\* activePointIndex of a series that is not empty; it counts from 0
activePointIndex(chartPoints, hoverIndex) ==
    IF hoverIndex.null THEN Len(chartPoints) - 1
    ELSE IF hoverIndex.index < 0 \/ hoverIndex.index >= Len(chartPoints)
         THEN Len(chartPoints) - 1
         ELSE hoverIndex.index

\* drawdownFromHigh measured from the low
drawdownFromLow(chartPoints, index) ==
    IF minY(chartPoints) = 0 THEN NoValue
    ELSE Percent(chartPoints[index + 1].p - minY(chartPoints), minY(chartPoints))

\* drawdownFromHigh
drawdownFromHigh(chartPoints, index) ==
    IF maxY(chartPoints) = 0 THEN NoValue
    ELSE Percent(chartPoints[index + 1].p - maxY(chartPoints), maxY(chartPoints))

\* positionInRangePct measured from the high
positionInRangePctFromHigh(chartPoints, index) ==
    IF maxY(chartPoints) = minY(chartPoints) THEN NoValue
    ELSE Percent(chartPoints[index + 1].p - maxY(chartPoints),
                 maxY(chartPoints) - minY(chartPoints))

\* positionInRangePct
positionInRangePct(chartPoints, index) ==
    IF maxY(chartPoints) = minY(chartPoints) THEN NoValue
    ELSE Percent(chartPoints[index + 1].p - minY(chartPoints),
                 maxY(chartPoints) - minY(chartPoints))

\* the values hoverIndex can hold: null, the indices of the series, one before and one after
HoverIndexes(points) ==
    {NoIndex} \cup {Index(i) : i \in (-1)..(IF Len(points) <= MaxRamp THEN Len(points) ELSE 1)}
        \cup {Index(Len(points) - 2), Index(Len(points))}

CalcIdle ==
    [stage |-> "none", points |-> <<>>, period |-> 0, average |-> <<>>,
     ma50Series |-> <<>>, ma200Series |-> <<>>,
     latestMA50 |-> NoAverage, latestMA200 |-> NoAverage, crossSignal |-> NoCross,
     transitions |-> <<>>, targetTs |-> 0, nearest |-> 0, hoverIndex |-> NoIndex, activePointIndex |-> 0,
     rangePerformance |-> NoValue, rangeHigh |-> 0, rangeLow |-> 0,
     volatilityPct |-> NoValue, drawdownFromHigh |-> NoValue,
     positionInRangePct |-> NoValue]

\* the page holds a series
CalcInput(points) == [CalcIdle EXCEPT !.stage = "series", !.points = points]

\* movingAverage(chartPoints, period)
Averaged ==
    /\ calc.stage = "series"
    /\ \E period \in Periods :
          calc' = [calc EXCEPT !.stage = "averaged", !.period = period,
                               !.average = movingAverage(calc.points, period)]
    /\ UNCHANGED <<clock, active, spot, hist, cycle, fng, fngHistory, norm, page, journal>>

(***************************************************************************)
(* Home and its data hooks.  A hook is useSWR(key, fetcher, options): the  *)
(* hooks of one key share that key's data, error and request in flight; a  *)
(* revalidation (on mount, on a key change, on the refresh timer) starts a *)
(* request unless one is in flight for the key; a request that settles     *)
(* stores its data and clears the error, or stores the error and keeps the *)
(* data.  Every action ends with the render it causes and the effects of   *)
(* that render.                                                            *)
(***************************************************************************)
\* the ranges the range buttons select in the model
PageRanges == {"24h", "7d"}

\* the keys of the hooks.  cycle and fngHistory are hooks of the form of fng,
\* with keys of their own and no refresh button; fng stands for the three
SpotKey == "/api/btc"
HistoryKey(range) == IF range = "24h" THEN "/api/btc/history?range=24h" ELSE "/api/btc/history?range=7d"
PlainKeys == {SpotKey, "/api/fng", HistoryKey("24h")}
Keys == PlainKeys \cup {HistoryKey(r) : r \in PageRanges}

\* Math.sin(i / 5) in thousandths, i from 0
SinThousandths ==
    <<0, 199, 389, 565, 717, 841, 932, 985, 1000, 974, 909, 808,
      675, 516, 335, 141, -58, -256, -443, -612, -757, -872, -952, -994,
      -996, -959, -883, -773, -631, -465, -279, -83, 117, 312, 494, 657,
      794, 899, 968, 999, 989, 941, 855, 734, 585, 412, 223, 25,
      -174, -366, -544, -700, -828, -923, -981, -1000, -979, -919, -823, -694,
      -537, -358, -166, 34, 232, 420, 592, 740, 859, 944, 991, 998,
      966, 895, 788, 650, 486, 303, 108, -92, -288, -472, -638, -778,
      -888, -961, -997, -993, -949, -867, -751, -605, -435, -247, -50, 150,
      343, 523, 682, 814, 913, 976, 1000, 984, 929, 837, 711, 557,
      381, 190, -9, -207, -398, -572, -723, -846, -935, -987, -999, -972>>

getRangeDays(range) ==
    CASE range = "24h" -> 1
      [] range = "7d" -> 7
      [] range = "1m" -> 30
      [] range = "1y" -> 365
      [] range = "5y" -> 365 * 5
      [] OTHER -> 365 * 10

\* buildSyntheticChart(range, price) at Date.now() = now; the wobble to the whole number below
buildSyntheticChart(range, price, now) ==
    LET days == getRangeDays(range)
        pointsCount == IF range = "24h" THEN 48 ELSE IF range = "7d" THEN 84 ELSE 120
        start == now - days * DayTicks
        step == Max(1, (now - start) \div (pointsCount - 1))
        base == IF IsNullish(price) THEN 60000 ELSE price.v
        wobble(i) == (SinThousandths[i + 1] * base * 25) \div 10000000
    IN  SeriesPayload(range, "synthetic",
                      [k \in 1..pointsCount |-> [t |-> start + (k - 1) * step, p |-> base + wobble(k - 1)]],
                      now)

\* no chart payload: chart.data undefined, or no entry of rangeChartCache
NoChart == SeriesPayload("24h", "none", <<>>, 0)

\* fetcher(url): the parsed body, or it throws
fetcher(reply, body) ==
    IF reply.kind = "reject" \/ ~ResOk(reply.status) \/ ~reply.parses
    THEN [threw |-> TRUE, data |-> body]
    ELSE [threw |-> FALSE, data |-> body]

\* the try block of chartFetcher: normalizeChartPayload(await fetcher(url))
chartFetcherTry(reply, body) ==
    LET fetched == fetcher(reply, body)
        normalized == normalizeChartPayload([body EXCEPT !.points = JsPoints(body.points)])
    IN  IF fetched.threw \/ normalized.threw
        THEN [threw |-> TRUE, data |-> NoChart]
        ELSE [threw |-> FALSE, data |-> normalized.value]

\* the catch block of chartFetcher: the synthetic chart at the spot price, or at no price
chartFetcherCatch(range, reply, body, now) ==
    LET btc == fetcher(reply, body)
        price == ToNumber(btc.data.price)
    IN  IF btc.threw THEN buildSyntheticChart(range, Null, now)
        ELSE buildSyntheticChart(range, IF IsFinite(price) THEN price ELSE Null, now)

\* what GET /api/btc/history?range= answers the page: a series, a series in
\* which one timestamp comes twice (the route sorts its points and keeps them
\* all; the page's normalizer is left with 1 point and throws), or a failure
HistoryAnswers(range) ==
    {<<Responds(200, TRUE),
       SeriesPayload(range, "coingecko",
                     <<[t |-> Now0 - getRangeDays(range) * DayTicks, p |-> 60000],
                       [t |-> Now0 - 3600, p |-> 61000], [t |-> Now0, p |-> 62000]>>, Now0)>>,
     <<Responds(200, TRUE),
       SeriesPayload(range, "binance",
                     <<[t |-> Now0, p |-> 61000], [t |-> Now0, p |-> 62000]>>, Now0)>>,
     <<Responds(502, TRUE), NoChart>>,
     <<Rejects(MsgNetwork), NoChart>>}

\* what GET /api/btc answers the page
SpotAnswers ==
    {<<Responds(200, TRUE), [price |-> Num(61000)]>>,
     <<Responds(500, TRUE), [price |-> Undefined]>>}

\* fetch of a key is its request in flight: "idle", "fetcher" for one made by
\* fetcher, "chartFetcher" for chartFetcher awaiting the history and
\* "chartFetcher:btc" for chartFetcher awaiting /api/btc
PageIdle ==
    [isAuthenticated |-> FALSE,
     isDemoMode |-> FALSE,
     range |-> "24h",
     rangeChartCache |-> [r \in PageRanges |-> NoChart],
     fetch |-> [k \in Keys |-> "idle"],
     btc |-> [price |-> Undefined, error |-> FALSE],
     history |-> [r \in PageRanges |-> [data |-> NoChart, error |-> FALSE]],
     chartData |-> NoChart,
     hoverIndex |-> NoIndex]

canAccessDashboard(p) == p.isAuthenticated \/ p.isDemoMode

\* chart.error: the error of its key
chartError(p) == canAccessDashboard(p) /\ p.history[p.range].error

\* isValidating of the hooks of a key
isValidating(p, key) == canAccessDashboard(p) /\ p.fetch[key] # "idle"

\* the requests outstanding for a URL: that of its hooks, and for /api/btc
\* those chartFetcher makes itself
Outstanding(p, url) ==
    (IF p.fetch[url] \in {"fetcher", "chartFetcher"} THEN 1 ELSE 0)
        + (IF url = SpotKey
           THEN Cardinality({r \in PageRanges : p.fetch[HistoryKey(r)] = "chartFetcher:btc"})
           ELSE 0)

\* a revalidation of a key by a hook whose fetcher is `by`
Revalidate(p, key, by) ==
    IF p.fetch[key] = "idle" THEN [p EXCEPT !.fetch[key] = by] ELSE p

\* the hooks revalidate in their order in Home, btc24h before chart
RevalidateAll(p) ==
    Revalidate([p EXCEPT !.fetch = [k \in Keys |-> IF k \in PlainKeys /\ p.fetch[k] = "idle"
                                                    THEN "fetcher"
                                                    ELSE p.fetch[k]]],
               HistoryKey(p.range), "chartFetcher")

\* the hooks that listen, each as its key and its fetcher
Hooks(p) == {<<k, "fetcher">> : k \in PlainKeys} \cup {<<HistoryKey(p.range), "chartFetcher">>}

\* a request for a key is over: its data and no error, or its error and the data kept
Settled(entry, threw, data) ==
    IF threw THEN [entry EXCEPT !.error = TRUE] ELSE [data |-> data, error |-> FALSE]

\* displayChart
displayChart(p) ==
    IF Len(p.chartData.points) >= 2 THEN p.chartData
    ELSE IF p.rangeChartCache[p.range] # NoChart THEN p.rangeChartCache[p.range]
         ELSE buildSyntheticChart(p.range, p.btc.price, Now0)

\* the effect on rangeChartCache, of a render in which chart.data is `data`
CacheEffect(p, data) ==
    IF ~canAccessDashboard(p) THEN [r \in PageRanges |-> NoChart]
    ELSE IF Len(data.points) >= 2 /\ data.source # "synthetic"
         THEN [p.rangeChartCache EXCEPT ![p.range] = data]
         ELSE p.rangeChartCache

\* a render and its effects: chart.data is the data of the chart's key or,
\* without any (keepPreviousData), what it was; then the cache effect
Rendered(p) ==
    LET data == IF canAccessDashboard(p) /\ p.history[p.range].data # NoChart
                THEN p.history[p.range].data
                ELSE p.chartData
    IN  [p EXCEPT !.chartData = data, !.rangeChartCache = CacheEffect(p, data)]

(***************************************************************************)
(* The journal store.  The file data/journal.json holds every user's        *)
(* entries; a call reads the whole file, changes its copy and writes the    *)
(* whole file, and another call may run at each await in between.           *)
(***************************************************************************)
\* how many calls on the store the model runs
MaxCalls == 3

Calls == 1..MaxCalls
Users == {"chris", "demo"}

\* the entry that call c adds has the id c
NoDb == [exists |-> FALSE, users |-> [u \in Users |-> <<>>]]
EmptyDb == [exists |-> TRUE, users |-> [u \in Users |-> <<>>]]

NoCall == [op |-> "none", pc |-> "idle", username |-> "chris", id |-> 0,
           db |-> EmptyDb, deleted |-> FALSE]

JournalIdle == [file |-> NoDb, calls |-> [c \in Calls |-> NoCall]]

\* userEntries.filter(entry => entry.id !== id)
WithoutId(userEntries, id) ==
    LET Other(entry) == entry # id
    IN  SelectSeq(userEntries, Other)

\* the db that addJournalEntry writes
addJournalEntry(db, username, entry) ==
    [db EXCEPT !.users[username] = <<entry>> \o @]

\* the db that deleteJournalEntry writes, and what it returns
deleteJournalEntry(db, username, id) ==
    LET userEntries == db.users[username]
        next == WithoutId(userEntries, id)
    IN  [db |-> [db EXCEPT !.users[username] = next],
         deleted |-> Len(next) # Len(userEntries)]

(***************************************************************************)
(* The routes as a state machine.                                          *)
(***************************************************************************)
Init ==
    /\ clock = Now0
    /\ active = "none"
    /\ spot = SpotIdle
    /\ hist = HistIdle
    /\ cycle = CycleIdle
    /\ fng = FngIdle
    /\ fngHistory = FngHistoryIdle
    /\ norm = NormIdle
    /\ calc = CalcIdle
    /\ page = PageIdle
    /\ journal = JournalIdle

\* time passes
Tick ==
    /\ clock < Now0 + MaxTicks
    /\ clock' = clock + 1
    /\ UNCHANGED <<active, spot, hist, cycle, fng, fngHistory, norm, calc, page, journal>>

\* a request for /api/btc arrives
SpotStart ==
    /\ active = "none"
    /\ active' = "spot"
    /\ spot' = SpotEntered
    /\ UNCHANGED <<clock, hist, cycle, fng, fngHistory, norm, calc, page, journal>>

\* const result = await provider(): the call
SpotCall ==
    /\ spot.pc = "call"
    /\ spot' = SpotCalled(spot)
    /\ UNCHANGED <<clock, active, hist, cycle, fng, fngHistory, norm, calc, page, journal>>

\* the awaited provider settles and the loop goes on or the handler returns
SpotReply ==
    /\ spot.pc = "wait"
    /\ \E result \in SpotResults(spot, clock) : spot' = SpotSettled(spot, result)
    /\ UNCHANGED <<clock, active, hist, cycle, fng, fngHistory, norm, calc, page, journal>>

\* the response of /api/btc has been sent
SpotEnd ==
    /\ active = "spot"
    /\ spot.pc = "done"
    /\ active' = "none"
    /\ spot' = SpotIdle
    /\ UNCHANGED <<clock, hist, cycle, fng, fngHistory, norm, calc, page, journal>>

\* a request for /api/btc/history arrives
HistStart ==
    /\ active = "none"
    /\ active' = "history"
    /\ \E param \in RangeParams : hist' = HistEntered(param)
    /\ UNCHANGED <<clock, spot, cycle, fng, fngHistory, norm, calc, page, journal>>

\* const result = await provider(range), for the three real providers
HistCall ==
    /\ hist.pc = "call"
    /\ hist.idx < Len(HistProviders)
    /\ hist' = HistCalled(hist, clock)
    /\ UNCHANGED <<clock, active, spot, cycle, fng, fngHistory, norm, calc, page, journal>>

HistReply ==
    /\ hist.pc = "wait"
    /\ hist.idx < Len(HistProviders)
    /\ \E answer \in HistReplies :
          hist' = [HistSettled(hist,
                               HistProvider(HistProviders[hist.idx], hist.range,
                                            answer[1], answer[2], hist.now, clock))
                      EXCEPT !.upstream = Upstream(answer[1], answer[2])]
    /\ UNCHANGED <<clock, active, spot, cycle, fng, fngHistory, norm, calc, page, journal>>

\* fromSpotFallback is called: its fetch of /api/btc goes out
HistFallbackCall ==
    /\ hist.pc = "call"
    /\ hist.idx = Len(HistProviders)
    /\ hist' = HistCalled(hist, clock)
    /\ UNCHANGED <<clock, active, spot, cycle, fng, fngHistory, norm, calc, page, journal>>

\* the spot route, run for the nested fetch, answers it
HistFallbackReply ==
    /\ hist.pc = "wait"
    /\ hist.idx = Len(HistProviders)
    /\ \E answer \in NestedAnswers[clock] :
          hist' = [HistSettled(hist,
                               fromSpotFallback(hist.range, FetchAnswered(answer),
                                                hist.now, clock))
                      EXCEPT !.fetched = FetchAnswered(answer)]
    /\ UNCHANGED <<clock, active, spot, cycle, fng, fngHistory, norm, calc, page, journal>>

\* the nested fetch rejects: no connection, or its 8 s timeout
HistFallbackAbort ==
    /\ hist.pc = "wait"
    /\ hist.idx = Len(HistProviders)
    /\ \E message \in {MsgNetwork, MsgTimeout} :
          hist' = [HistSettled(hist,
                               fromSpotFallback(hist.range, FetchRejected(message),
                                                hist.now, clock))
                      EXCEPT !.fetched = FetchRejected(message)]
    /\ UNCHANGED <<clock, active, spot, cycle, fng, fngHistory, norm, calc, page, journal>>

\* the response of /api/btc/history has been sent
HistEnd ==
    /\ active = "history"
    /\ hist.pc = "done"
    /\ active' = "none"
    /\ hist' = HistIdle
    /\ UNCHANGED <<clock, spot, cycle, fng, fngHistory, norm, calc, page, journal>>

\* a request for /api/btc/cycle arrives
CycleStart ==
    /\ active = "none"
    /\ active' = "cycle"
    /\ cycle' = CycleEntered(clock)
    /\ UNCHANGED <<clock, spot, hist, fng, fngHistory, norm, calc, page, journal>>

CycleFirstReply ==
    /\ cycle.pc = "waitA"
    /\ \E answer \in DominanceReplies :
          cycle' = CycleFirstSettled(cycle, fetchDominanceFromCoinGecko(answer[1], answer[2]))
    /\ UNCHANGED <<clock, active, spot, hist, fng, fngHistory, norm, calc, page, journal>>

CycleSecondReply ==
    /\ cycle.pc = "waitB"
    /\ \E answer \in DominanceReplies :
          cycle' = CycleSecondSettled(cycle, fetchDominanceFromCoinPaprika(answer[1], answer[2]))
    /\ UNCHANGED <<clock, active, spot, hist, fng, fngHistory, norm, calc, page, journal>>

CycleEnd ==
    /\ active = "cycle"
    /\ cycle.pc = "done"
    /\ active' = "none"
    /\ cycle' = CycleIdle
    /\ UNCHANGED <<clock, spot, hist, fng, fngHistory, norm, calc, page, journal>>

\* a request for /api/fng arrives
FngStart ==
    /\ active = "none"
    /\ active' = "fng"
    /\ fng' = FngEntered
    /\ UNCHANGED <<clock, spot, hist, cycle, fngHistory, norm, calc, page, journal>>

FngReply ==
    /\ fng.pc = "wait"
    /\ \E answer \in FngReplies : fng' = FngSettled(fng, answer[1], answer[2], clock)
    /\ UNCHANGED <<clock, active, spot, hist, cycle, fngHistory, norm, calc, page, journal>>

\* the invocation is over: a response was sent, or the handler threw
FngEnd ==
    /\ active = "fng"
    /\ fng.pc \in {"done", "threw"}
    /\ active' = "none"
    /\ fng' = FngIdle
    /\ UNCHANGED <<clock, spot, hist, cycle, fngHistory, norm, calc, page, journal>>

\* a request for /api/fng/history arrives
FngHistoryStart ==
    /\ active = "none"
    /\ active' = "fngHistory"
    /\ \E param \in RangeParams : fngHistory' = FngHistoryEntered(param, clock)
    /\ UNCHANGED <<clock, spot, hist, cycle, fng, norm, calc, page, journal>>

FngHistoryReply ==
    /\ fngHistory.pc = "wait"
    /\ \E answer \in FngHistoryReplies :
          fngHistory' = FngHistorySettled(fngHistory, answer[1], answer[2])
    /\ UNCHANGED <<clock, active, spot, hist, cycle, fng, norm, calc, page, journal>>

FngHistoryEnd ==
    /\ active = "fngHistory"
    /\ fngHistory.pc = "done"
    /\ active' = "none"
    /\ fngHistory' = FngHistoryIdle
    /\ UNCHANGED <<clock, spot, hist, cycle, fng, norm, calc, page, journal>>

Next ==
    \/ Tick
    \/ SpotStart
    \/ SpotCall
    \/ SpotReply
    \/ SpotEnd
    \/ HistStart
    \/ HistCall
    \/ HistReply
    \/ HistFallbackCall
    \/ HistFallbackReply
    \/ HistFallbackAbort
    \/ HistEnd
    \/ CycleStart
    \/ CycleFirstReply
    \/ CycleSecondReply
    \/ CycleEnd
    \/ FngStart
    \/ FngReply
    \/ FngEnd
    \/ FngHistoryStart
    \/ FngHistoryReply
    \/ FngHistoryEnd

Spec == Init /\ [][Next]_vars

\* the normalizer on every raw input of the bounded sets
InitNorm ==
    /\ clock = Now0
    /\ active = "none"
    /\ spot = SpotIdle
    /\ hist = HistIdle
    /\ cycle = CycleIdle
    /\ fng = FngIdle
    /\ fngHistory = FngHistoryIdle
    /\ calc = CalcIdle
    /\ page = PageIdle
    /\ journal = JournalIdle
    /\ \/ \E rawPoints \in SeqsUpTo(ShortRawPoints, MaxShort) : norm = NormInput(rawPoints)
       \/ \E n \in 5..MaxLong :
             \E prices \in [1..n -> LongPrices] : norm = NormInput(LongInput(n, prices))
       \/ \E n \in 6..MaxLong :
             \E prices \in [1..n -> LongPrices] : norm = NormInput(RepeatInput(n, prices))

NextNorm ==
    \/ NormalizeOnce
    \/ NormalizeAgain

SpecNorm == InitNorm /\ [][NextNorm]_vars

\* ma50Series, ma200Series and crossSignal of the series, with what each pass
\* of its loop finds when it is not cut short
Crossed ==
    /\ calc.stage = "series"
    /\ LET ma50Series == movingAverage(calc.points, ShortPeriod)
           ma200Series == movingAverage(calc.points, LongPeriod)
       IN  calc' = [calc EXCEPT !.stage = "crossed",
                                !.ma50Series = ma50Series,
                                !.ma200Series = ma200Series,
                                !.latestMA50 = latestMA(ma50Series),
                                !.latestMA200 = latestMA(ma200Series),
                                !.crossSignal = crossSignal(calc.points, ma50Series, ma200Series),
                                !.transitions = [idx \in 1..(Len(calc.points) - 1) |->
                                                    CrossAt(ma50Series, ma200Series, idx)]]
    /\ UNCHANGED <<clock, active, spot, hist, cycle, fng, fngHistory, norm, page, journal>>

\* findNearestPointIndex(chartPoints, targetTs)
Located ==
    /\ calc.stage = "series"
    /\ \E targetTs \in Targets(calc.points) :
          calc' = [calc EXCEPT !.stage = "located", !.targetTs = targetTs,
                               !.nearest = findNearestPointIndex(calc.points, targetTs)]
    /\ UNCHANGED <<clock, active, spot, hist, cycle, fng, fngHistory, norm, page, journal>>

\* the statistics Home derives from displayChart, which has 2 points or more
Measured ==
    /\ calc.stage = "series"
    /\ Len(calc.points) >= 2
    /\ \E hoverIndex \in HoverIndexes(calc.points) :
          LET index == activePointIndex(calc.points, hoverIndex)
          IN  calc' = [calc EXCEPT
                          !.stage = "measured",
                          !.hoverIndex = hoverIndex,
                          !.activePointIndex = index,
                          !.rangePerformance = rangePerformance(calc.points),
                          !.rangeHigh = maxY(calc.points),
                          !.rangeLow = minY(calc.points),
                          !.volatilityPct = volatilityPct(calc.points),
                          !.drawdownFromHigh = drawdownFromHigh(calc.points, index),
                          !.positionInRangePct = positionInRangePct(calc.points, index)]
    /\ UNCHANGED <<clock, active, spot, hist, cycle, fng, fngHistory, norm, page, journal>>

InitCalc ==
    /\ clock = Now0
    /\ active = "none"
    /\ spot = SpotIdle
    /\ hist = HistIdle
    /\ cycle = CycleIdle
    /\ fng = FngIdle
    /\ fngHistory = FngHistoryIdle
    /\ norm = NormIdle
    /\ page = PageIdle
    /\ journal = JournalIdle
    /\ \/ \E n \in 0..MaxSeries :
             \E prices \in [1..n -> SmallPrices] : calc = CalcInput(ShortSeries(prices))
       \/ \E n \in (MaxSeries + 1)..MaxRamp : calc = CalcInput(Ramp(n))
       \/ \E first \in {1800, 2000} :
             \E n \in 0..MaxTail :
                 \E tail \in [1..n -> TailPrices] :
                     calc = CalcInput(LongSeries(first, 2000, tail))
       \/ calc = CalcInput(<<[t |-> 0, p |-> 100], [t |-> 100, p |-> 110]>>)
       \/ \E n \in 2..MaxSeries : calc = CalcInput([i \in 1..n |-> [t |-> 10 * i, p |-> 0]])
       \/ \E n \in {LongPeriod - 1, LongPeriod} : calc = CalcInput(Step(n))
       \/ \E range \in RangeKeys, price \in {Undefined, Num(61000)} :
             calc = CalcInput(buildSyntheticChart(range, price, Now0).points)
       \/ \E range \in RangeKeys :
             calc = CalcInput(fromSpotFallback(range, FetchAnswered([status |-> 200, price |-> Num(61000)]),
                                               Now0, Now0).data.points)

NextCalc ==
    \/ Averaged
    \/ Crossed
    \/ Located
    \/ Measured

SpecCalc == InitCalc /\ [][NextCalc]_vars

(***************************************************************************)
(* Home as a state machine.                                                *)
(***************************************************************************)
Others == <<clock, active, spot, hist, cycle, fng, fngHistory, norm, calc, journal>>

\* the session check or handleLogin succeeds
Login ==
    /\ ~canAccessDashboard(page)
    /\ page' = Rendered(RevalidateAll([page EXCEPT !.isAuthenticated = TRUE, !.isDemoMode = FALSE]))
    /\ UNCHANGED Others

\* the demo button
EnterDemo ==
    /\ ~canAccessDashboard(page)
    /\ page' = Rendered(RevalidateAll([page EXCEPT !.isDemoMode = TRUE]))
    /\ UNCHANGED Others

\* handleLogout, at its finally block
Logout ==
    /\ canAccessDashboard(page)
    /\ page' = Rendered([page EXCEPT !.isAuthenticated = FALSE, !.isDemoMode = FALSE])
    /\ UNCHANGED Others

\* a range button: setHoverIndex(null), setRange; the new key of chart revalidates
SetRange ==
    /\ canAccessDashboard(page)
    /\ \E range \in PageRanges \ {page.range} :
          page' = Rendered(Revalidate([page EXCEPT !.range = range, !.hoverIndex = NoIndex],
                                      HistoryKey(range), "chartFetcher"))
    /\ UNCHANGED Others

\* the refresh timer of a hook
Poll ==
    /\ canAccessDashboard(page)
    /\ \E hook \in Hooks(page) :
          /\ page.fetch[hook[1]] = "idle"
          /\ page' = Rendered(Revalidate(page, hook[1], hook[2]))
    /\ UNCHANGED Others

\* a refresh button (BTC, F&G, chart), enabled while its hook is not
\* validating; that of the chart sets hoverIndex to null first
ManualRefresh ==
    /\ canAccessDashboard(page)
    /\ \E hook \in {<<SpotKey, "fetcher">>, <<"/api/fng", "fetcher">>,
                    <<HistoryKey(page.range), "chartFetcher">>} :
          /\ ~isValidating(page, hook[1])
          /\ page' = Rendered([page EXCEPT
                                   !.fetch[hook[1]] = hook[2],
                                   !.hoverIndex = IF hook[2] = "chartFetcher" THEN NoIndex ELSE @])
    /\ UNCHANGED Others

\* the request of btc is over
BtcSettled ==
    /\ page.fetch[SpotKey] = "fetcher"
    /\ \E answer \in SpotAnswers :
          LET res == fetcher(answer[1], answer[2])
          IN  page' = Rendered([page EXCEPT
                                   !.fetch[SpotKey] = "idle",
                                   !.btc = IF res.threw THEN [@ EXCEPT !.error = TRUE]
                                           ELSE [price |-> res.data.price, error |-> FALSE]])
    /\ UNCHANGED Others

\* a request fetcher made for the 24h history is over
Btc24hSettled ==
    /\ page.fetch[HistoryKey("24h")] = "fetcher"
    /\ \E answer \in HistoryAnswers("24h") :
          LET res == fetcher(answer[1], answer[2])
          IN  page' = Rendered([page EXCEPT
                                   !.fetch[HistoryKey("24h")] = "idle",
                                   !.history["24h"] = Settled(@, res.threw, res.data)])
    /\ UNCHANGED Others

\* the request of fng is over
FngHookSettled ==
    /\ page.fetch["/api/fng"] = "fetcher"
    /\ page' = Rendered([page EXCEPT !.fetch["/api/fng"] = "idle"])
    /\ UNCHANGED Others

\* chartFetcher's fetch of the history is over: it returns the normalized
\* series, or goes on to fetch /api/btc
ChartHistorySettled ==
    /\ \E range \in PageRanges :
          /\ page.fetch[HistoryKey(range)] = "chartFetcher"
          /\ \E answer \in HistoryAnswers(range) :
                LET res == chartFetcherTry(answer[1], answer[2])
                IN  page' = IF res.threw
                            THEN Rendered([page EXCEPT !.fetch[HistoryKey(range)] = "chartFetcher:btc"])
                            ELSE Rendered([page EXCEPT
                                              !.fetch[HistoryKey(range)] = "idle",
                                              !.history[range] = Settled(@, FALSE, res.data)])
    /\ UNCHANGED Others

\* chartFetcher's fetch of /api/btc is over: it returns a synthetic chart
ChartBtcSettled ==
    /\ \E range \in PageRanges :
          /\ page.fetch[HistoryKey(range)] = "chartFetcher:btc"
          /\ \E answer \in SpotAnswers :
                page' = Rendered([page EXCEPT
                                     !.fetch[HistoryKey(range)] = "idle",
                                     !.history[range] =
                                         Settled(@, FALSE,
                                                 chartFetcherCatch(range, answer[1], answer[2], Now0))])
    /\ UNCHANGED Others

\* the pointer moves over the chart: updateHoverIndexFromClientX, with the
\* pointer at the left end, the middle or the right end of the time axis
Hover ==
    /\ canAccessDashboard(page)
    /\ LET chartPoints == displayChart(page).points
           minX == chartPoints[1].t
           maxX == chartPoints[Len(chartPoints)].t
       IN  \E targetTs \in {minX, minX + (maxX - minX) \div 2, maxX} :
              LET nearest == findNearestPointIndex(chartPoints, targetTs)
              IN  /\ nearest >= 0
                  /\ page' = Rendered([page EXCEPT !.hoverIndex = Index(nearest)])
    /\ UNCHANGED Others

\* onMouseLeave of the chart
MouseLeave ==
    /\ canAccessDashboard(page)
    /\ page' = Rendered([page EXCEPT !.hoverIndex = NoIndex])
    /\ UNCHANGED Others

InitPage ==
    /\ clock = Now0
    /\ active = "none"
    /\ spot = SpotIdle
    /\ hist = HistIdle
    /\ cycle = CycleIdle
    /\ fng = FngIdle
    /\ fngHistory = FngHistoryIdle
    /\ norm = NormIdle
    /\ calc = CalcIdle
    /\ page = PageIdle
    /\ journal = JournalIdle

NextPage ==
    \/ Login
    \/ EnterDemo
    \/ Logout
    \/ SetRange
    \/ Poll
    \/ ManualRefresh
    \/ BtcSettled
    \/ Btc24hSettled
    \/ FngHookSettled
    \/ ChartHistorySettled
    \/ ChartBtcSettled

SpecPage == InitPage /\ [][NextPage]_vars

(***************************************************************************)
(* The chart of the dashboard under the pointer: the dashboard is entered  *)
(* once, and from then on the pointer moves over the chart and leaves it,  *)
(* ranges are chosen, refresh buttons are pressed and requests settle.     *)
(***************************************************************************)
NextHover ==
    \/ EnterDemo
    \/ SetRange
    \/ ManualRefresh
    \/ BtcSettled
    \/ Btc24hSettled
    \/ FngHookSettled
    \/ ChartHistorySettled
    \/ ChartBtcSettled
    \/ Hover
    \/ MouseLeave

SpecHover == InitPage /\ [][NextHover]_vars

(***************************************************************************)
(* The journal store as a state machine.                                   *)
(***************************************************************************)
NotJournal == <<clock, active, spot, hist, cycle, fng, fngHistory, norm, calc, page>>

\* POST calls addJournalEntry with a new entry
AddStart ==
    /\ \E c \in Calls, username \in Users :
          /\ journal.calls[c].pc = "idle"
          /\ journal' = [journal EXCEPT
                            !.calls[c] = [NoCall EXCEPT !.op = "add", !.pc = "access",
                                                        !.username = username, !.id = c]]
    /\ UNCHANGED NotJournal

\* DELETE calls deleteJournalEntry with the id of an entry
DeleteStart ==
    /\ \E c \in Calls, username \in Users, id \in Calls :
          /\ journal.calls[c].pc = "idle"
          /\ journal' = [journal EXCEPT
                            !.calls[c] = [NoCall EXCEPT !.op = "delete", !.pc = "access",
                                                        !.username = username, !.id = id]]
    /\ UNCHANGED NotJournal

\* ensureDb: fs.access finds the file, or does not
EnsureAccess ==
    /\ \E c \in Calls :
          /\ journal.calls[c].pc = "access"
          /\ journal' = [journal EXCEPT
                            !.calls[c].pc = IF journal.file.exists THEN "read" ELSE "create"]
    /\ UNCHANGED NotJournal

\* ensureDb: fs.writeFile of the initial db
EnsureCreate ==
    /\ \E c \in Calls :
          /\ journal.calls[c].pc = "create"
          /\ journal' = [journal EXCEPT !.file = EmptyDb, !.calls[c].pc = "read"]
    /\ UNCHANGED NotJournal

\* readDb: fs.readFile
ReadDb ==
    /\ \E c \in Calls :
          /\ journal.calls[c].pc = "read"
          /\ journal' = [journal EXCEPT
                            !.calls[c].db = IF journal.file.exists THEN journal.file ELSE EmptyDb,
                            !.calls[c].pc = "write"]
    /\ UNCHANGED NotJournal

\* writeDb: fs.writeFile of the changed copy; the call returns
WriteDb ==
    /\ \E c \in Calls :
          LET call == journal.calls[c]
              removed == deleteJournalEntry(call.db, call.username, call.id)
          IN  /\ call.pc = "write"
              /\ journal' = [journal EXCEPT
                                !.file = IF call.op = "add"
                                         THEN addJournalEntry(call.db, call.username, call.id)
                                         ELSE removed.db,
                                !.calls[c].pc = "done",
                                !.calls[c].deleted = (call.op = "delete" /\ removed.deleted)]
    /\ UNCHANGED NotJournal

InitJournal ==
    /\ clock = Now0
    /\ active = "none"
    /\ spot = SpotIdle
    /\ hist = HistIdle
    /\ cycle = CycleIdle
    /\ fng = FngIdle
    /\ fngHistory = FngHistoryIdle
    /\ norm = NormIdle
    /\ calc = CalcIdle
    /\ page = PageIdle
    /\ journal = JournalIdle

NextJournal ==
    \/ AddStart
    \/ DeleteStart
    \/ EnsureAccess
    \/ EnsureCreate
    \/ ReadDb
    \/ WriteDb

SpecJournal == InitJournal /\ [][NextJournal]_vars

(***************************************************************************)
(* Properties of the provider chains.                                      *)
(***************************************************************************)
\* the two chains side by side: the invocation and its provider order
Chains == <<[run |-> spot, providers |-> SpotProviders],
            [run |-> hist, providers |-> HistProviders]>>

\* C1: provider order.  When the provider that settled last succeeded, the
\* providers before it having failed, the chain returns that provider's data
\* and the source label of the response is that provider's name.
ProviderOrder ==
    \A n \in DOMAIN Chains :
        LET run == Chains[n].run
            k == Len(run.failures) + 1
        IN  (run.pc # "idle" /\ run.result.ok) =>
                /\ run.pc = "done"
                /\ run.response.status = 200
                /\ run.result.name = Chains[n].providers[k]
                /\ run.response.body.source = Chains[n].providers[k]
                /\ run.response.body.ts = run.result.data.ts
                /\ \A i \in 1..(k - 1) : run.failures[i].provider = Chains[n].providers[i]
                /\ IF n = 1
                   THEN run.response.body.price = JsonNumber(run.result.data.price)
                   ELSE run.response.body.points = run.result.data.points

\* the history chain returned the synthesizer's series after three failures
ProviderOrderWitness ==
    /\ hist.pc = "done"
    /\ hist.result.ok
    /\ Len(hist.failures) = 3
    /\ hist.response.body.source = "spot-fallback"

\* C2: sequential attempts.  Requests go out in provider order, each after
\* every earlier provider's attempt has ended in a failure; at most one is
\* in flight; none goes out after a provider has succeeded.
SequentialAttempts ==
    \A n \in DOMAIN Chains :
        LET run == Chains[n].run
            providers == Chains[n].providers
        IN  /\ Cardinality(run.inflight) <= 1
            /\ Len(run.called) <= Len(providers)
            /\ run.called = SubSeq(providers, 1, Len(run.called))
            /\ Len(run.failures) <= Len(run.called)
            /\ Len(run.called) <= Len(run.failures) + 1
            /\ run.pc = "wait" =>
                   /\ run.inflight = {providers[Len(run.called)]}
                   /\ Len(run.failures) = Len(run.called) - 1
            /\ run.pc \in {"idle", "call", "done"} => run.inflight = {}
            /\ run.pc = "call" => Len(run.failures) = Len(run.called)
            /\ (run.pc = "done" /\ run.result.ok) =>
                   Len(run.called) = Len(run.failures) + 1

\* the third spot provider is in flight after two failed attempts
SequentialAttemptsWitness ==
    /\ spot.pc = "wait"
    /\ Len(spot.failures) = 2
    /\ spot.inflight = {"coincap"}

\* the error reasons a spot adapter can report
SpotReasons ==
    {MsgNetwork, MsgTimeout, MsgSyntax, "HTTP 429", "HTTP 500", "missing/invalid price"}

\* C3: chain exhaustion.  When all four spot providers have failed the
\* response is the failure (status 500) and lists one entry per provider, in
\* chain order, with the provider's name and its error reason.
ChainExhaustion ==
    /\ (spot.pc = "done" /\ ~spot.result.ok) =>
          /\ spot.response.status = 500
          /\ spot.response.body.providers = spot.failures
          /\ Len(spot.failures) = Len(SpotProviders)
    /\ \A i \in DOMAIN spot.failures :
          /\ spot.failures[i].provider = SpotProviders[i]
          /\ spot.failures[i].error \in SpotReasons
    /\ (spot.failures # <<>> /\ ~spot.result.ok) =>
          spot.failures[Len(spot.failures)].error = spot.result.error

\* all four failed, each for a reason of its own
ChainExhaustionWitness ==
    /\ spot.pc = "done"
    /\ spot.response.status = 500
    /\ spot.failures[1].error = MsgTimeout
    /\ spot.failures[2].error = "HTTP 429"
    /\ spot.failures[3].error = MsgSyntax
    /\ spot.failures[4].error = "missing/invalid price"

\* C4: no adapter throws.  No handler of the spot, history, dominance,
\* sentiment or sentiment-history class ends in an exception that nothing
\* caught: each turns every upstream failure into a failure it returns.
NoAdapterThrows ==
    \A pc \in {spot.pc, hist.pc, cycle.pc, fng.pc, fngHistory.pc} : pc # "threw"

\* C5, as stated: the history chain never ends with all its providers
\* failed, the synthesizer being ok every time it is reached.
HistoryNeverExhausted ==
    hist.pc = "done" => (hist.response.status = 200 /\ hist.result.ok)

\* C5, amended: once the three real providers have failed, the chain ends
\* with the synthesizer's series exactly when the synthesizer's request to the
\* spot route is answered 2xx with a numeric price; otherwise it ends in the
\* all-providers-failed response, four entries in chain order, the last one
\* the synthesizer's.  Only the synthesizer's failure exhausts the chain.
HistoryExhaustion ==
    /\ (hist.pc = "done" /\ Len(hist.called) = Len(HistProviders)) =>
          LET f == hist.fetched
              body == hist.response.body
          IN  IF f.kind = "response" /\ f.status >= 200 /\ f.status <= 299
                    /\ f.price.ty = "num"
              THEN /\ hist.response.status = 200
                   /\ body.source = "spot-fallback"
                   /\ Len(hist.failures) = 3
              ELSE /\ hist.response.status = 500
                   /\ Len(body.providers) = 4
                   /\ \A i \in 1..4 : body.providers[i].provider = HistProviders[i]
                   /\ body.providers[4].error \in
                          {MsgNetwork, MsgTimeout, "HTTP 500", "missing/invalid spot price"}
    /\ (hist.pc = "done" /\ hist.response.status # 200) =>
          Len(hist.called) = Len(HistProviders)

\* the spot chain behind the synthesizer was exhausted, and so is the history chain
HistoryExhaustionWitness ==
    /\ hist.pc = "done"
    /\ hist.response.status = 500
    /\ hist.fetched.kind = "response"
    /\ hist.fetched.status = 500
    /\ hist.failures[4].error = "HTTP 500"

\* C6, as stated: the synthesizer's series has at least 2 points, all at the
\* spot price, the first at now minus the window and the last at now, and is
\* labelled spot-fallback.
SyntheticSpansWindow ==
    (hist.pc = "done" /\ hist.result.ok /\ hist.result.name = "spot-fallback") =>
        LET points == hist.response.body.points
            window == RANGE_CONFIG[hist.range].days * DayTicks
        IN  /\ Len(points) >= 2
            /\ \A i \in DOMAIN points : points[i].p = hist.fetched.price.v
            /\ points[1].t = hist.now - window
            /\ points[Len(points)].t = hist.now
            /\ hist.response.body.source = "spot-fallback"

\* C6, amended: the series has the range's fallbackPoints points (48 to 180),
\* all at the spot price, evenly spaced from now minus the window; the last
\* one lies before now, by less than one time unit per step, the window being
\* no multiple of the number of steps for any range.
SyntheticSeries ==
    (hist.pc = "done" /\ hist.result.ok /\ hist.result.name = "spot-fallback") =>
        LET points == hist.response.body.points
            n == Len(points)
            window == RANGE_CONFIG[hist.range].days * DayTicks
        IN  /\ n >= 2
            /\ n = RANGE_CONFIG[hist.range].fallbackPoints
            /\ hist.fetched.price.ty = "num"
            /\ \A i \in DOMAIN points : points[i].p = hist.fetched.price.v
            /\ points[1].t = hist.now - window
            /\ \A i \in 1..(n - 1) :
                  points[i + 1].t - points[i].t = points[2].t - points[1].t
            /\ points[n].t < hist.now
            /\ hist.now - points[n].t < n - 1
            /\ hist.response.body.source = "spot-fallback"

\* a week of synthetic points at the spot price
SyntheticSeriesWitness ==
    /\ hist.pc = "done"
    /\ hist.result.ok
    /\ hist.response.body.source = "spot-fallback"
    /\ hist.range = "7d"
    /\ hist.response.body.points[84].p = 65000

\* C7: the dominance chain.  The handler always answers 200: with the first
\* adapter's value when it has one, else the second's, else the value null
\* labelled unavailable; the second adapter is called only after the first
\* had no value.
DominanceFallback ==
    /\ cycle.pc = "done" =>
          LET body == cycle.response.body
          IN  /\ cycle.response.status = 200
              /\ IF cycle.first # NoDominance
                 THEN /\ body.btcDominance = cycle.first.value
                      /\ body.dominanceSource = "coingecko"
                      /\ cycle.called = <<"coingecko">>
                 ELSE IF cycle.second # NoDominance
                      THEN /\ body.btcDominance = cycle.second.value
                           /\ body.dominanceSource = "coinpaprika"
                      ELSE /\ body.btcDominance = Null
                           /\ body.dominanceSource = "unavailable"
    /\ Len(cycle.called) > 1 =>
          /\ cycle.called = <<"coingecko", "coinpaprika">>
          /\ cycle.first = NoDominance
    /\ cycle.pc = "waitA" => cycle.called = <<"coingecko">>

\* the first adapter had no value and the second one did
DominanceFallbackWitness ==
    /\ cycle.pc = "done"
    /\ cycle.first = NoDominance
    /\ cycle.response.body.dominanceSource = "coinpaprika"
    /\ cycle.response.body.btcDominance = Num(58)

RawFinite(rawPoint) == ToNumber(rawPoint.t).ty = "num" /\ ToNumber(rawPoint.p).ty = "num"

\* the finite raw points, the last one of each timestamp
LastOfEachT(rawPoints) ==
    LET T(i) == ToNumber(rawPoints[i].t).v
        last == {i \in DOMAIN rawPoints :
                    /\ RawFinite(rawPoints[i])
                    /\ \A j \in DOMAIN rawPoints :
                          (j > i /\ RawFinite(rawPoints[j])) => T(j) # T(i)}
    IN  {[t |-> T(i), p |-> ToNumber(rawPoints[i].p).v] : i \in last}

\* the middle price of a set of points with distinct timestamps, the upper
\* one of the two when their number is even
UpperMedian(S) ==
    CHOOSE m \in {point.p : point \in S} :
        /\ Cardinality({point \in S : point.p < m}) <= Cardinality(S) \div 2
        /\ Cardinality({point \in S : point.p <= m}) > Cardinality(S) \div 2

\* what is left of a set of points when, of 5 or more, those below a fifth or
\* above five times the median go
WithoutOutliers(S) ==
    IF Cardinality(S) >= 5
    THEN {point \in S : 5 * point.p >= UpperMedian(S) /\ point.p <= 5 * UpperMedian(S)}
    ELSE S

\* the points that remain after all the filtering
Remaining(rawPoints) ==
    WithoutOutliers({point \in LastOfEachT(rawPoints) : point.p > 1000 /\ point.p < 5000000})

Range(q) == {q[i] : i \in DOMAIN q}

\* C9: the normalizer's postcondition.  It fails exactly when fewer than 2
\* points remain after all the filtering; otherwise it returns those points,
\* at least 2, with strictly increasing timestamps and every price strictly
\* between 1000 and 5,000,000, and leaves the rest of the payload alone.
NormalizePostcondition ==
    norm.stage \in {"once", "twice"} =>
        LET remaining == Remaining(norm.input.points)
            points == norm.once.value.points
        IN  /\ norm.once.threw <=> Cardinality(remaining) < 2
            /\ ~norm.once.threw =>
                  /\ Len(points) >= 2
                  /\ \A i \in 1..(Len(points) - 1) : points[i].t < points[i + 1].t
                  /\ \A i \in DOMAIN points : points[i].p > 1000 /\ points[i].p < 5000000
                  /\ Range(points) = remaining
                  /\ norm.once.value = [norm.input EXCEPT !.points = points]

\* three raw points, a repeated timestamp among them, normalized to two
NormalizePostconditionWitness ==
    /\ norm.stage = "once"
    /\ ~norm.once.threw
    /\ Len(norm.input.points) = 3
    /\ norm.input.points[1].t = norm.input.points[3].t
    /\ Len(norm.once.value.points) = 2

\* C10, as stated: normalizing a normalized payload succeeds and changes nothing.
NormalizeIdempotent ==
    norm.stage = "twice" => (~norm.twice.threw /\ norm.twice.value = norm.once.value)

\* C10, amended: normalizing a normalized payload succeeds and returns points
\* of that payload; it returns all of them exactly when the payload has fewer
\* than 5 points or each of its prices lies between a fifth of and five times
\* the median of its own prices.
NormalizeTwice ==
    norm.stage = "twice" =>
        LET once == norm.once.value.points
            twice == norm.twice.value.points
            m == UpperMedian(Range(once))
            settled == \/ Len(once) < 5
                       \/ \A i \in DOMAIN once : 5 * once[i].p >= m /\ once[i].p <= 5 * m
        IN  /\ ~norm.twice.threw
            /\ Len(twice) >= 2
            /\ Range(twice) \subseteq Range(once)
            /\ settled <=> norm.twice.value = norm.once.value

\* the second pass removed a point that the first one had kept
NormalizeTwiceWitness ==
    /\ norm.stage = "twice"
    /\ Len(norm.input.points) = 6
    /\ Len(norm.once.value.points) = 5
    /\ Len(norm.twice.value.points) = 4

\* the points of a set that the band and, from 5 of them up, the median let through
Accepted(S) ==
    LET banded == {point \in S : point.p > 1000 /\ point.p < 5000000}
        m == UpperMedian(banded)
    IN  IF Cardinality(banded) >= 5
        THEN {point \in banded : 5 * point.p >= m /\ point.p <= 5 * m}
        ELSE banded

\* C11: de-duplication.  The output holds no two points of one timestamp, and
\* a point of the output carries the value given last for its timestamp.  When
\* raw points share a timestamp with different values and the one given last
\* passes the validation, the output holds exactly one point at that
\* timestamp, with that value.
DedupLastWins ==
    (norm.stage \in {"once", "twice"} /\ ~norm.once.threw) =>
        LET raw == norm.input.points
            points == norm.once.value.points
            T(i) == ToNumber(raw[i].t).v
            P(i) == ToNumber(raw[i].p).v
            finite == {i \in DOMAIN raw : RawFinite(raw[i])}
            Last(i) == \A j \in finite : T(j) = T(i) => j <= i
            candidates == {[t |-> T(i), p |-> P(i)] : i \in {k \in finite : Last(k)}}
        IN  /\ \A a, b \in DOMAIN points : points[a].t = points[b].t => a = b
            /\ \A a \in DOMAIN points :
                  \E i \in finite : Last(i) /\ T(i) = points[a].t /\ P(i) = points[a].p
            /\ \A i, j \in finite :
                  (i < j /\ T(i) = T(j) /\ P(i) # P(j) /\ Last(j)
                         /\ [t |-> T(j), p |-> P(j)] \in Accepted(candidates)) =>
                      /\ Cardinality({a \in DOMAIN points : points[a].t = T(j)}) = 1
                      /\ \E a \in DOMAIN points : points[a].t = T(j) /\ points[a].p = P(j)

\* timestamp 10 given with 2000 and then with 3000: the output holds 3000 there
DedupLastWinsWitness ==
    /\ norm.stage = "once"
    /\ ~norm.once.threw
    /\ Len(norm.input.points) = 3
    /\ norm.input.points[1] = [t |-> Num(10), p |-> Num(2000)]
    /\ norm.input.points[2] = [t |-> Num(10), p |-> Str(3000)]
    /\ norm.once.value.points[1] = [t |-> 10, p |-> 3000]

\* C12: the outlier filter.  With at least 5 points left by de-duplication,
\* the non-finite filter and the band, the output holds exactly those of them
\* whose price lies between a fifth of and five times the median, the middle
\* one of their sorted prices (the upper of the two middle ones for an even
\* count); with fewer than 5 the output holds them all.
OutlierFilter ==
    (norm.stage \in {"once", "twice"}) =>
        LET survivors == {point \in LastOfEachT(norm.input.points) :
                             point.p > 1000 /\ point.p < 5000000}
            m == UpperMedian(survivors)
            inside == {point \in survivors : 5 * point.p >= m /\ point.p <= 5 * m}
            expected == IF Cardinality(survivors) >= 5 THEN inside ELSE survivors
        IN  IF norm.once.threw
            THEN Cardinality(expected) < 2
            ELSE Range(norm.once.value.points) = expected

\* five points at 3000 and one at 16000, above five times the median: it is left out
OutlierFilterWitness ==
    /\ norm.stage = "once"
    /\ Len(norm.input.points) = 6
    /\ Cardinality({i \in 1..6 : norm.input.points[i].p = Num(3000)}) = 5
    /\ norm.input.points[4].p = Num(16000)
    /\ Len(norm.once.value.points) = 5
    /\ \A i \in 1..5 : norm.once.value.points[i].p = 3000

(***************************************************************************)
(* Properties of the page's derived values, under SpecCalc.                *)
(***************************************************************************)
\* C13: the moving average's length and alignment.  For a period of 1 or
\* more the result is as long as the series, entry i (counted from 0) is
\* absent for i < period - 1 and present from there on: a period of 50 on 10
\* points gives 10 absent entries.
AverageAlignment ==
    (calc.stage = "averaged" /\ calc.period >= 1) =>
        /\ Len(calc.average) = Len(calc.points)
        /\ \A i \in DOMAIN calc.average :
              calc.average[i].defined <=> i - 1 >= calc.period - 1
        /\ (calc.period = 50 /\ Len(calc.points) = 10) =>
              calc.average = [i \in 1..10 |-> NoAverage]

\* period 50 on the ramp of 10 points
AverageAlignmentWitness ==
    /\ calc.stage = "averaged"
    /\ calc.period = 50
    /\ Len(calc.points) = 10
    /\ \A i \in 1..10 : ~calc.average[i].defined

\* the sum of the prices of points[from..to]
RECURSIVE SumOfPrices(_, _, _)
SumOfPrices(points, from, to) ==
    IF from > to THEN 0
    ELSE IF from = to THEN points[from].p
    ELSE SumOfPrices(points, from, (from + to) \div 2)
             + SumOfPrices(points, ((from + to) \div 2) + 1, to)

\* C14: the moving average's value.  Every present entry i is the mean of the
\* period prices that end at i, summed afresh; period 3 over the prices 1, 2,
\* 3, 4, 5 gives 2, 3, 4 at the indices 2, 3, 4.
AverageIsMean ==
    (calc.stage = "averaged" /\ calc.period >= 1) =>
        /\ \A i \in DOMAIN calc.average :
              i >= calc.period =>
                  /\ calc.average[i].defined
                  /\ calc.average[i].period = calc.period
                  /\ calc.average[i].sum = SumOfPrices(calc.points, i - calc.period + 1, i)
        /\ (calc.period = 3 /\ calc.points = ShortSeries(<<1, 2, 3, 4, 5>>)) =>
              \A i \in 3..5 : calc.average[i].sum = (i - 1) * calc.average[i].period

\* period 3 over 1, 2, 3, 4, 5: the sums 6, 9, 12 over 3
AverageIsMeanWitness ==
    /\ calc.stage = "averaged"
    /\ calc.period = 3
    /\ calc.points = ShortSeries(<<1, 2, 3, 4, 5>>)
    /\ calc.average[3] = Average(6, 3)
    /\ calc.average[4] = Average(9, 3)
    /\ calc.average[5] = Average(12, 3)

\* C15: the crossover reported is the most recent one.  Among the indices i
\* at which both averages are present at i - 1 and at i and the short one
\* goes from not above to above the long one (golden) or from not below to
\* below it (death), the signal is that of the largest, with the timestamp of
\* point i; it is null exactly when there is no such index.
CrossIsMostRecent ==
    calc.stage = "crossed" =>
        LET s == calc.ma50Series
            l == calc.ma200Series
            Lt(a, b) == a.sum * b.period < b.sum * a.period
            Present(i) == s[i].defined /\ l[i].defined
            Golden(i) == ~Lt(l[i - 1], s[i - 1]) /\ Lt(l[i], s[i])
            Death(i) == ~Lt(s[i - 1], l[i - 1]) /\ Lt(s[i], l[i])
            at == {i \in 2..Len(calc.points) :
                      Present(i - 1) /\ Present(i) /\ (Golden(i) \/ Death(i))}
        IN  IF at = {}
            THEN calc.crossSignal = NoCross
            ELSE LET i == CHOOSE k \in at : \A j \in at : j <= k
                 IN  /\ calc.crossSignal.t = calc.points[i].t
                     /\ calc.crossSignal.type = IF Golden(i) THEN "golden" ELSE "death"

\* a golden cross at point 201 and a death cross at point 202: the death cross is reported
CrossIsMostRecentWitness ==
    /\ calc.stage = "crossed"
    /\ Len(calc.points) = 202
    /\ calc.points[1].p = 2000
    /\ calc.points[201].p = 2200
    /\ calc.points[202].p = 1001
    /\ calc.crossSignal = [type |-> "death", t |-> 2020]

\* C16: the nearest point.  The locator returns -1 exactly for the empty
\* series; otherwise an index (from 0) whose timestamp is nearest the target,
\* the first index for a target before the series and the last for one after
\* it, and of two points equally near the earlier one.
NearestPoint ==
    calc.stage = "located" =>
        LET points == calc.points
            n == Len(points)
            i == calc.nearest
            Dist(k) == IF points[k + 1].t >= calc.targetTs
                       THEN points[k + 1].t - calc.targetTs
                       ELSE calc.targetTs - points[k + 1].t
        IN  /\ i = -1 <=> n = 0
            /\ n > 0 =>
                  /\ i \in 0..(n - 1)
                  /\ \A k \in 0..(n - 1) : Dist(i) <= Dist(k)
                  /\ \A k \in 0..(n - 1) : Dist(k) = Dist(i) => i <= k
                  /\ calc.targetTs < points[1].t => i = 0
                  /\ calc.targetTs > points[n].t => i = n - 1

\* the target 15, midway between the points at 10 and 20 of a series of two
NearestPointWitness ==
    /\ calc.stage = "located"
    /\ Len(calc.points) = 2
    /\ calc.targetTs = 15
    /\ calc.nearest = 0

\* the value is the quotient (a / b) * 100
IsPercent(value, a, b) == ~value.null /\ value.num * b = a * 100 * value.den

RangeReturnNullWitness ==
    /\ calc.stage = "measured"
    /\ calc.points[1].p = 0
    /\ calc.rangePerformance.null

\* C18: with the active point of a displayed series, the drawdown from the
\* high is (active.p - high) / high * 100 and the position in the range is
\* (active.p - low) / (high - low) * 100; the position is null exactly when
\* the high equals the low.
ActivePointMetrics ==
    calc.stage = "measured" =>
        LET points == calc.points
            activePoint == points[calc.activePointIndex + 1]
            high == calc.rangeHigh
            low == calc.rangeLow
        IN  /\ calc.activePointIndex \in 0..(Len(points) - 1)
            /\ (~calc.hoverIndex.null /\ calc.hoverIndex.index \in 0..(Len(points) - 1))
                   => calc.activePointIndex = calc.hoverIndex.index
            /\ high # 0 => IsPercent(calc.drawdownFromHigh, activePoint.p - high, high)
            /\ calc.positionInRangePct.null <=> high = low
            /\ high # low => IsPercent(calc.positionInRangePct, activePoint.p - low, high - low)

\* a hovered point strictly between the low and the high, and a flat series
ActivePointMetricsWitness ==
    /\ calc.stage = "measured"
    /\ ~calc.hoverIndex.null
    /\ calc.activePointIndex = 1
    /\ calc.activePointIndex < Len(calc.points) - 1
    /\ calc.points[2].p > calc.rangeLow
    /\ calc.points[2].p < calc.rangeHigh
    /\ ~calc.positionInRangePct.null
    /\ calc.positionInRangePct.num > 0
    /\ calc.drawdownFromHigh.num < 0

\* C29: for a series of positive prices and its active point, the drawdown
\* from the high is at most 0 and is 0 exactly when the active price is the
\* high; the position in the range, when it is not null, lies between 0 and
\* 100, is 0 at the low and 100 at the high.
ActivePointBounds ==
    (calc.stage = "measured" /\ \A i \in DOMAIN calc.points : calc.points[i].p > 0) =>
        LET activePoint == calc.points[calc.activePointIndex + 1]
            drawdown == calc.drawdownFromHigh
            position == calc.positionInRangePct
        IN  /\ ~drawdown.null
            /\ drawdown.den > 0
            /\ drawdown.num <= 0
            /\ drawdown.num = 0 <=> activePoint.p = calc.rangeHigh
            /\ ~position.null =>
                  /\ position.den > 0
                  /\ position.num >= 0
                  /\ position.num <= 100 * position.den
                  /\ activePoint.p = calc.rangeLow => position.num = 0
                  /\ activePoint.p = calc.rangeHigh => position.num = 100 * position.den

\* the hovered point is the high of a series of positive prices that is not flat
ActivePointBoundsWitness ==
    /\ calc.stage = "measured"
    /\ \A i \in DOMAIN calc.points : calc.points[i].p > 0
    /\ ~calc.hoverIndex.null
    /\ calc.activePointIndex = calc.hoverIndex.index
    /\ calc.points[calc.activePointIndex + 1].p = calc.rangeHigh
    /\ calc.rangeHigh > calc.rangeLow
    /\ calc.drawdownFromHigh.num = 0
    /\ calc.positionInRangePct.num = 100 * calc.positionInRangePct.den

\* C30: with the periods 50 and 200 a transition is found only at an index
\* of 200 or more, so crossSignal is null for every series of fewer than 201
\* points, and where it is not null its point is at index 200 or later;
\* latestMA200 is null for every series of fewer than 200 points.
CrossNeedsLongSeries ==
    calc.stage = "crossed" =>
        LET n == Len(calc.points)
        IN  /\ \A idx \in 1..(n - 1) : calc.transitions[idx] # "none" => idx >= LongPeriod
            /\ n < LongPeriod + 1 => calc.crossSignal = NoCross
            /\ calc.crossSignal # NoCross =>
                  \E idx \in LongPeriod..(n - 1) : calc.points[idx + 1].t = calc.crossSignal.t
            /\ n < LongPeriod => ~calc.latestMA200.defined

\* a series of 200 points that steps up: latestMA50 is above latestMA200,
\* which is present, and no cross is reported
CrossNeedsLongSeriesWitness ==
    /\ calc.stage = "crossed"
    /\ Len(calc.points) = LongPeriod
    /\ calc.points[1].p < calc.points[LongPeriod].p
    /\ calc.latestMA200.defined
    /\ calc.latestMA50.defined
    /\ Below(calc.latestMA200, calc.latestMA50)
    /\ calc.crossSignal = NoCross

(***************************************************************************)
(* Properties of Home, under SpecPage.                                     *)
(***************************************************************************)
\* a request for the history of the selected range ends in failure in this
\* step: chartFetcher returns from its catch block, or fetcher has thrown
RefreshFails ==
    /\ canAccessDashboard(page)
    /\ page'.range = page.range
    /\ page.fetch[HistoryKey(page.range)] \in {"chartFetcher:btc", "fetcher"}
    /\ page'.fetch[HistoryKey(page.range)] = "idle"
    /\ page.fetch[HistoryKey(page.range)] = "fetcher" => page'.history[page.range].error

\* C19: whenever a refresh of the history of the selected range fails while
\* rangeChartCache holds a good series of that range, the series displayed
\* after the failure is that series, and chart.error marks it as stale.
LastGoodRetained ==
    [][(/\ RefreshFails
        /\ page.rangeChartCache[page.range] # NoChart
        /\ page.rangeChartCache[page.range].range = page.range)
           => /\ displayChart(page') = page.rangeChartCache[page.range]
              /\ chartError(page')]_vars

\* C20: under every interleaving of refresh timers and refresh buttons, no
\* key (spot, 24h reference, selected-range history, sentiment) ever has two
\* requests outstanding at once.
AtMostOneInFlight == \A url \in Keys : Outstanding(page, url) <= 1

\* the series is what normalizeChartPayload returns for it: it passed the normalizer
PassedNormalization(data) ==
    LET normalized == normalizeChartPayload([data EXCEPT !.points = JsPoints(data.points)])
    IN  ~normalized.threw /\ normalized.value.points = data.points

\* C21: every entry of rangeChartCache passed normalization with 2 points or
\* more and is no synthetic placeholder, and the cache is empty whenever the
\* caller is neither authenticated nor in demo mode.
CacheLifecycle ==
    /\ \A r \in PageRanges :
          page.rangeChartCache[r] # NoChart =>
              /\ Len(page.rangeChartCache[r].points) >= 2
              /\ page.rangeChartCache[r].source # "synthetic"
              /\ PassedNormalization(page.rangeChartCache[r])
    /\ ~canAccessDashboard(page) => \A r \in PageRanges : page.rangeChartCache[r] = NoChart

\* a request is issued in this step: a key gets a request in flight, or
\* chartFetcher goes on from the history to /api/btc
Issues(key) == page'.fetch[key] # page.fetch[key] /\ page'.fetch[key] # "idle"

\* C22: a market-data fetch is issued only while the caller is authenticated
\* or in demo mode: none before login or demo entry, none after logout.
FetchGate ==
    [][(\E key \in Keys : Issues(key)) => canAccessDashboard(page')]_vars

(***************************************************************************)
(* Further properties of the normalizer, under SpecNorm.                   *)
(***************************************************************************)
\* the raw points that are the last of their timestamp and carry no finite value
LastNotFinite(raw) ==
    {i \in DOMAIN raw :
        /\ IsFinite(ToNumber(raw[i].t))
        /\ ~IsFinite(ToNumber(raw[i].p))
        /\ \A j \in DOMAIN raw :
              (j > i /\ IsFinite(ToNumber(raw[j].t))) => ToNumber(raw[j].t).v # ToNumber(raw[i].t).v}

\* C23 as stated: de-duplication comes before the drop of non-finite points,
\* so when the last raw point of a timestamp has no finite value the output
\* holds no point at that timestamp.
DedupBeforeDrop ==
    (norm.stage \in {"once", "twice"} /\ ~norm.once.threw) =>
        \A i \in LastNotFinite(norm.input.points) :
            \A a \in DOMAIN norm.once.value.points :
                norm.once.value.points[a].t # ToNumber(norm.input.points[i].t).v

\* C23, amended: the drop of non-finite points comes before de-duplication.
\* A raw point without a finite value counts for nothing: the normalizer
\* fails exactly when fewer than 2 of the last finite points of the
\* timestamps pass the filters, and when the last raw point of a timestamp
\* has no finite value the output holds, at that timestamp, the last finite
\* value given for it, provided there is one and it passes the filters.
DropBeforeDedup ==
    (norm.stage \in {"once", "twice"}) =>
        LET raw == norm.input.points
            points == norm.once.value.points
            candidates == LastOfEachT(raw)
        IN  /\ norm.once.threw <=> Cardinality(Accepted(candidates)) < 2
            /\ ~norm.once.threw =>
                  \A i \in LastNotFinite(raw) :
                      LET t == ToNumber(raw[i].t).v
                      IN  \A point \in candidates :
                              point.t = t =>
                                  ((\E a \in DOMAIN points : points[a] = point)
                                      <=> point \in Accepted(candidates))

\* timestamp 10 given with 2000 and last with a value that is no number: the
\* output holds 2000 at timestamp 10
DropBeforeDedupWitness ==
    /\ norm.stage = "once"
    /\ ~norm.once.threw
    /\ Len(norm.input.points) = 3
    /\ norm.input.points[1] = [t |-> Num(10), p |-> Num(2000)]
    /\ norm.input.points[3] = [t |-> Num(10), p |-> BadStr]
    /\ norm.once.value.points[1] = [t |-> 10, p |-> 2000]

(***************************************************************************)
(* Further properties of the page's derived values, under SpecCalc.        *)
(***************************************************************************)
\* C24 as stated: at a pair of adjacent points with both averages present, a
\* death cross is found exactly when the short average is above the long one
\* at the first and not above it at the second.
DeathIsReverse ==
    calc.stage = "crossed" =>
        \A idx \in DOMAIN calc.transitions :
            LET s == calc.ma50Series
                l == calc.ma200Series
                Lt(a, b) == a.sum * b.period < b.sum * a.period
            IN  (s[idx].defined /\ l[idx].defined /\ s[idx + 1].defined /\ l[idx + 1].defined) =>
                    (calc.transitions[idx] = "death"
                        <=> (Lt(l[idx], s[idx]) /\ ~Lt(l[idx + 1], s[idx + 1])))

\* C24, amended: a death cross is the mirror image of the golden cross.  At a
\* pair of adjacent points with both averages present a death cross is found
\* exactly when the short average is not below the long one at the first and
\* below it at the second, a golden cross exactly when it is not above at the
\* first and above at the second, and never both.
DeathMirrorsGolden ==
    calc.stage = "crossed" =>
        \A idx \in DOMAIN calc.transitions :
            LET s == calc.ma50Series
                l == calc.ma200Series
                Lt(a, b) == a.sum * b.period < b.sum * a.period
                golden == ~Lt(l[idx], s[idx]) /\ Lt(l[idx + 1], s[idx + 1])
                death == ~Lt(s[idx], l[idx]) /\ Lt(s[idx + 1], l[idx + 1])
            IN  IF s[idx].defined /\ l[idx].defined /\ s[idx + 1].defined /\ l[idx + 1].defined
                THEN /\ calc.transitions[idx] = "death" <=> death
                     /\ calc.transitions[idx] = "golden" <=> golden
                     /\ ~(golden /\ death)
                ELSE calc.transitions[idx] = "none"

\* 200 points at 2000, where the two averages are equal, and then 1001: a
\* death cross at point 201
DeathMirrorsGoldenWitness ==
    /\ calc.stage = "crossed"
    /\ Len(calc.points) >= 201
    /\ calc.points[1].p = 2000
    /\ calc.points[201].p = 1001
    /\ calc.ma50Series[200].sum * 200 = calc.ma200Series[200].sum * 50
    /\ calc.transitions[200] = "death"

(***************************************************************************)
(* Further properties of Home, under SpecPage.                             *)
(***************************************************************************)
\* C25: every entry of rangeChartCache stored under a range holds a series
\* that was fetched for that range, whatever the range switches, refreshes
\* and completions before.
CacheKeying ==
    \A r \in PageRanges :
        page.rangeChartCache[r] # NoChart => page.rangeChartCache[r].range = r

(***************************************************************************)
(* Properties of the journal store, under SpecJournal.                     *)
(***************************************************************************)
\* the entries of a user in the file
Stored(username) ==
    IF journal.file.exists
    THEN {journal.file.users[username][i] : i \in DOMAIN journal.file.users[username]}
    ELSE {}

\* C26: under every interleaving of the calls at their awaits, an entry whose
\* add has returned and that no call deletes is in the file, and an entry
\* whose delete has returned true is not.
NoLostUpdate ==
    \A c \in Calls :
        LET call == journal.calls[c]
        IN  /\ (/\ call.op = "add"
                /\ call.pc = "done"
                /\ \A d \in Calls : ~(/\ journal.calls[d].op = "delete"
                                      /\ journal.calls[d].username = call.username
                                      /\ journal.calls[d].id = call.id))
                   => call.id \in Stored(call.username)
            /\ (call.op = "delete" /\ call.pc = "done" /\ call.deleted)
                   => call.id \notin Stored(call.username)

\* C27: in every state the displayed chart has 2 points or more and its
\* timestamps increase strictly, whether it is the fetched series, the cached
\* series of the range or the synthetic series.
DisplayedSeriesOrdered ==
    LET points == displayChart(page).points
    IN  /\ Len(points) >= 2
        /\ \A i \in 1..(Len(points) - 1) : points[i].t < points[i + 1].t

\* C28: on the dashboard the active point index is an index of the displayed
\* series after every step; a hover index that is null or outside the series
\* resolves to the last point; and a step that changes the range leaves the
\* hover index null.
ActiveIndexValid ==
    [][canAccessDashboard(page') =>
          LET chartPoints == displayChart(page').points
              n == Len(chartPoints)
              index == activePointIndex(chartPoints, page'.hoverIndex)
          IN  /\ n > 0
              /\ index \in 0..(n - 1)
              /\ (page'.hoverIndex.null \/ page'.hoverIndex.index \notin 0..(n - 1))
                    => index = n - 1
              /\ (~page'.hoverIndex.null /\ page'.hoverIndex.index \in 0..(n - 1))
                    => index = page'.hoverIndex.index
              /\ page'.range # page.range => page'.hoverIndex.null]_vars

\* a hover index left over from a longer series
ActiveIndexValidWitness ==
    /\ canAccessDashboard(page)
    /\ ~page.hoverIndex.null
    /\ page.hoverIndex.index >= Len(displayChart(page).points)
    /\ page.range = "7d"

====
